---- MODULE Spec2Model ----
(***************************************************************************)
(* Objectivist knowledge lattice: the vault of node files, the reduction   *)
(* validator, the promotion/deletion rules and the consolidation commands. *)
(*                                                                         *)
(* A slug is  <timestamp>-<slugified title>.  The model keeps the          *)
(* timestamp part only: slug s was generated at second s, and `created` of *)
(* the file is s.  `clock` is the latest second at which a file was        *)
(* created; a later add runs in that same second or in the next one.       *)
(***************************************************************************)
EXTENDS Integers, Sequences, FiniteSets, TLC

VARIABLES vault, trash, masterTags, clock, last, disk, calls

vars == <<vault, trash, masterTags, clock, last, disk, calls>>

\* ---------------------------------------------------------------- bounds
MaxNodes == 3
MaxLinks == 2
MaxRefs == 2
MaxHops == 2
MaxCalls == 2

Slugs == 1..MaxNodes

\* ------------------------------------------------------------- constants
LEVELS == {"percept", "axiom", "principle", "application"}

VALIDATED == "Integrated/Validated"
TENTATIVE == "Tentative/Hypothesis"
STATUSES == {VALIDATED, TENTATIVE}

\* the ranks of the older schema, in which an axiom stands above a percept
StaleLevelRank(level) ==
  CASE level = "percept" -> 0
    [] level = "axiom" -> 1
    [] level = "principle" -> 2
    [] level = "application" -> 3

LEVEL_RANK(level) ==
  CASE level = "percept" -> 0
    [] level = "axiom" -> 0
    [] level = "principle" -> 1
    [] level = "application" -> 2

DEFAULT_TAGS ==
  {"health", "fitness", "career", "money", "relationships", "family",
   "friendships", "learning", "productivity", "decisions", "habits",
   "emotions", "communication", "creativity", "goals", "risk", "failure",
   "success", "ethics", "self-knowledge"}

IsBedrock(level) == level = "percept" \/ level = "axiom"

\* ------------------------------------------------------ sequence helpers
Range(seq) == {seq[i] : i \in 1..Len(seq)}

Includes(seq, x) == \E i \in 1..Len(seq) : seq[i] = x

RECURSIVE Filter(_, _)
\* Array.prototype.filter with the predicate "x \notin drop"
Filter(seq, drop) ==
  IF seq = <<>> THEN <<>>
  ELSE IF Head(seq) \in drop THEN Filter(Tail(seq), drop)
       ELSE <<Head(seq)>> \o Filter(Tail(seq), drop)

RECURSIVE AppendNew(_, _)
\* for (const r of toAdd) if (!current.includes(r)) current.push(r)
AppendNew(current, toAdd) ==
  IF toAdd = <<>> THEN current
  ELSE AppendNew(IF Includes(current, Head(toAdd)) THEN current
                 ELSE Append(current, Head(toAdd)),
                 Tail(toAdd))

RECURSIVE CountIn(_, _)
CountIn(seq, x) ==
  IF seq = <<>> THEN 0
  ELSE (IF Head(seq) = x THEN 1 ELSE 0) + CountIn(Tail(seq), x)

RECURSIVE Repeat(_, _)
Repeat(x, n) == IF n = 0 THEN <<>> ELSE <<x>> \o Repeat(x, n - 1)

SeqsUpTo(S, n) == UNION {[1..k -> S] : k \in 0..n}

\* a map with one more (or replaced) entry, and with one entry removed
Put(m, k, v) == [x \in DOMAIN m \cup {k} |-> IF x = k THEN v ELSE m[x]]
Drop(m, k) == [x \in DOMAIN m \ {k} |-> m[x]]

EmptyMap == [x \in {} |-> 0]

\* --------------------------------------------------------------- node files
\* The merge metadata of a node file: the group it is marked with, the
\* canonical node it was merged into, and, on a canonical node, the record of
\* the nodes merged into it (0 and <<>> stand for an absent field).
MergeFields == [deduplication_group |-> 0, merged_into |-> 0, merged_from |-> <<>>]

\* The frontmatter of one node file.  created is the slug itself.
NodeFile(level, status, reducesTo, tags) ==
  [level |-> level, status |-> status, reduces_to |-> reducesTo, tags |-> tags]
  @@ MergeFields

\* A file that does not open with a frontmatter block between --- lines:
\* nothing of it is metadata.
NoFrontmatter == [body |-> "p"]

\* parseNodeFile throws on a file without frontmatter, on an unrecognized
\* level and, for a principle or an application, on an unrecognized status;
\* loadAllNodes then skips the file.
Parses(f) ==
  /\ "level" \in DOMAIN f
  /\ f.level \in LEVELS
  /\ IsBedrock(f.level) \/ f.status \in STATUSES

\* parseNodeFile without the bedrock rule: the status is the one in the file
ParseNodeFileAsStored(f) == f

\* parseNodeFile: a bedrock node is Validated whatever the file says.
ParseNodeFile(f) ==
  [f EXCEPT !.status = IF IsBedrock(f.level) THEN VALIDATED ELSE f.status]

\* loadAllNodes without the try around parseNodeFile: one file that does not
\* parse ends the load, and no graph is returned
LoadAllNodesOrThrow(files) ==
  IF \E x \in DOMAIN files : ~Parses(files[x]) THEN EmptyMap
  ELSE [s \in DOMAIN files |-> ParseNodeFile(files[s])]

\* loadAllNodes: the slug-keyed map of the files that parse.
LoadAllNodes(files) ==
  [s \in {x \in DOMAIN files : Parses(files[x])} |-> ParseNodeFile(files[s])]

\* ---------------------------------------------------------------- graph.ts
\* validateLevelOrder with < in place of <=: an edge between nodes of equal
\* rank passes
ValidateLevelOrderBelowOnly(sourceLevel, targetLevel) ==
  IF LEVEL_RANK(sourceLevel) < LEVEL_RANK(targetLevel)
  THEN "LevelMismatch" ELSE "ok"

\* validateLevelOrder: the source must rank strictly above the target
ValidateLevelOrder(sourceLevel, targetLevel) ==
  IF LEVEL_RANK(sourceLevel) <= LEVEL_RANK(targetLevel)
  THEN "LevelMismatch" ELSE "ok"

RECURSIVE CycleWalk(_, _, _, _)
\* the while loop of wouldCreateCycle: stack.pop() takes the last element
CycleWalk(fromSlug, stack, visited, nodes) ==
  IF stack = <<>> THEN FALSE
  ELSE LET current == stack[Len(stack)]
           rest == SubSeq(stack, 1, Len(stack) - 1)
       IN IF current = fromSlug THEN TRUE
          ELSE IF current \in visited THEN CycleWalk(fromSlug, rest, visited, nodes)
          ELSE IF current \notin DOMAIN nodes
               THEN CycleWalk(fromSlug, rest, visited \cup {current}, nodes)
          ELSE CycleWalk(fromSlug, rest \o nodes[current].reduces_to,
                         visited \cup {current}, nodes)

\* wouldCreateCycle looking one step back only: the target is the source, or
\* the target lists the source
WouldCloseDirectCycle(fromSlug, toSlug, nodes) ==
  \/ fromSlug = toSlug
  \/ toSlug \in DOMAIN nodes /\ Includes(nodes[toSlug].reduces_to, fromSlug)

WouldCreateCycle(fromSlug, toSlug, nodes) ==
  IF fromSlug = toSlug THEN TRUE
  ELSE CycleWalk(fromSlug, <<toSlug>>, {}, nodes)

\* one iteration of the loop with the cycle check ahead of the level check
ValidateLinkCycleFirst(sourceSlug, sourceLevel, targetSlug, nodes) ==
  IF targetSlug \notin DOMAIN nodes THEN "TargetNotFound"
  ELSE IF WouldCreateCycle(sourceSlug, targetSlug, nodes) THEN "CycleDetected"
  ELSE IF ValidateLevelOrder(sourceLevel, nodes[targetSlug].level) # "ok"
       THEN "LevelMismatch"
  ELSE "ok"

\* one iteration of the loop of validateReductionLinks
ValidateLink(sourceSlug, sourceLevel, targetSlug, nodes) ==
  IF targetSlug \notin DOMAIN nodes THEN "TargetNotFound"
  ELSE IF ValidateLevelOrder(sourceLevel, nodes[targetSlug].level) # "ok"
       THEN "LevelMismatch"
  ELSE IF WouldCreateCycle(sourceSlug, targetSlug, nodes) THEN "CycleDetected"
  ELSE "ok"

\* validateReductionLinks returning after its first iteration: only the first
\* target is validated
ValidateFirstLinkOnly(sourceSlug, sourceLevel, reducesTo, nodes) ==
  IF reducesTo = <<>> THEN "ok"
  ELSE ValidateLink(sourceSlug, sourceLevel, Head(reducesTo), nodes)

RECURSIVE ValidateReductionLinks(_, _, _, _)
\* the first target that fails decides the error
ValidateReductionLinks(sourceSlug, sourceLevel, reducesTo, nodes) ==
  IF reducesTo = <<>> THEN "ok"
  ELSE LET r == ValidateLink(sourceSlug, sourceLevel, Head(reducesTo), nodes)
       IN IF r # "ok" THEN r
          ELSE ValidateReductionLinks(sourceSlug, sourceLevel, Tail(reducesTo), nodes)

RECURSIVE ValidateParentsAreValidated(_, _)
ValidateParentsAreValidated(reducesTo, nodes) ==
  IF reducesTo = <<>> THEN "ok"
  ELSE IF Head(reducesTo) \in DOMAIN nodes
          /\ nodes[Head(reducesTo)].status = TENTATIVE
       THEN "UnvalidatedParent"
  ELSE ValidateParentsAreValidated(Tail(reducesTo), nodes)

RECURSIVE HollowWalk(_, _, _, _)
\* the while loop of findHollowChains: the weak links in the order found
HollowWalk(stack, visited, weakLinks, nodes) ==
  IF stack = <<>> THEN weakLinks
  ELSE LET current == stack[Len(stack)]
           rest == SubSeq(stack, 1, Len(stack) - 1)
       IN IF current \in visited THEN HollowWalk(rest, visited, weakLinks, nodes)
          ELSE IF current \notin DOMAIN nodes
               THEN HollowWalk(rest, visited \cup {current}, weakLinks, nodes)
          ELSE HollowWalk(rest \o nodes[current].reduces_to,
                          visited \cup {current},
                          IF nodes[current].status = TENTATIVE
                          THEN Append(weakLinks, current) ELSE weakLinks,
                          nodes)

\* the walk of findHollowChains that looks at the direct parents only
DirectWeakLinks(slug, nodes) ==
  HollowWalk(nodes[slug].reduces_to, {}, <<>>,
             [n \in DOMAIN nodes |-> [nodes[n] EXCEPT !.reduces_to = <<>>]])

WeakLinksOf(slug, nodes) == HollowWalk(nodes[slug].reduces_to, {}, <<>>, nodes)

\* findHollowChains looking at the principles alone
FindHollowChainsOfPrinciples(nodes) ==
  [x \in {s \in DOMAIN nodes :
            /\ nodes[s].level = "principle"
            /\ nodes[s].status = VALIDATED
            /\ WeakLinksOf(s, nodes) # <<>>} |-> WeakLinksOf(x, nodes)]

\* findHollowChains: the hollow nodes, each with its weak links
FindHollowChains(nodes) ==
  [x \in {s \in DOMAIN nodes :
            /\ ~IsBedrock(nodes[s].level)
            /\ nodes[s].status = VALIDATED
            /\ WeakLinksOf(s, nodes) # <<>>} |-> WeakLinksOf(x, nodes)]

\* buildReductionChain: the depth at which walk gives up
MAX_DEPTH == 100

\* what walk returns where the code returns null
NullTree == [slug |-> 0, level |-> "none", status |-> "null", children |-> <<>>]

RECURSIVE Walk(_, _, _, _)
RECURSIVE WalkAll(_, _, _, _)

\* walk returning null for a slug that is not loaded: the missing target is
\* left out of the tree
WalkDroppingMissing(s, ancestors, depth, nodes) ==
  IF s \in ancestors
  THEN [slug |-> s, level |-> "percept", status |-> "cycle", children |-> <<>>]
  ELSE IF depth > MAX_DEPTH \/ s \notin DOMAIN nodes THEN NullTree
  ELSE [slug |-> s, level |-> nodes[s].level, status |-> nodes[s].status,
        children |-> WalkAll(nodes[s].reduces_to, ancestors \cup {s}, depth + 1, nodes)]

\* walk: a slug already on the current path is a cycle leaf, a slug that is
\* not loaded is a broken leaf, otherwise the node with one child per entry
Walk(s, ancestors, depth, nodes) ==
  IF s \in ancestors
  THEN [slug |-> s, level |-> "percept", status |-> "cycle", children |-> <<>>]
  ELSE IF depth > MAX_DEPTH THEN NullTree
  ELSE IF s \notin DOMAIN nodes
       THEN [slug |-> s, level |-> "percept", status |-> "unknown", children |-> <<>>]
  ELSE [slug |-> s, level |-> nodes[s].level, status |-> nodes[s].status,
        children |-> WalkAll(nodes[s].reduces_to, ancestors \cup {s}, depth + 1, nodes)]

\* the for loop of walk: the children in the order of reduces_to, without
\* those that came back as null
WalkAll(targets, ancestors, depth, nodes) ==
  IF targets = <<>> THEN <<>>
  ELSE LET child == Walk(Head(targets), ancestors, depth, nodes)
       IN (IF child = NullTree THEN <<>> ELSE <<child>>)
          \o WalkAll(Tail(targets), ancestors, depth, nodes)

RECURSIVE WalkShared(_, _, _, _)
RECURSIVE WalkAllShared(_, _, _, _)
\* walk with one set of seen slugs for the whole tree instead of one copy per
\* path; seen is returned along with the tree
WalkShared(s, seen, depth, nodes) ==
  IF s \in seen
  THEN [tree |-> [slug |-> s, level |-> "percept", status |-> "cycle",
                  children |-> <<>>],
        seen |-> seen]
  ELSE IF depth > MAX_DEPTH THEN [tree |-> NullTree, seen |-> seen]
  ELSE IF s \notin DOMAIN nodes
       THEN [tree |-> [slug |-> s, level |-> "percept", status |-> "unknown",
                       children |-> <<>>],
             seen |-> seen]
  ELSE LET below == WalkAllShared(nodes[s].reduces_to, seen \cup {s}, depth + 1, nodes)
       IN [tree |-> [slug |-> s, level |-> nodes[s].level, status |-> nodes[s].status,
                     children |-> below.trees],
           seen |-> below.seen]

WalkAllShared(targets, seen, depth, nodes) ==
  IF targets = <<>> THEN [trees |-> <<>>, seen |-> seen]
  ELSE LET first == WalkShared(Head(targets), seen, depth, nodes)
           rest == WalkAllShared(Tail(targets), first.seen, depth, nodes)
       IN [trees |-> (IF first.tree = NullTree THEN <<>> ELSE <<first.tree>>)
                     \o rest.trees,
           seen |-> rest.seen]

\* buildReductionChain with the shared set
BuildReductionChainShared(slug, nodes) ==
  IF slug \notin DOMAIN nodes THEN NullTree
  ELSE WalkShared(slug, {}, 0, nodes).tree

\* buildReductionChain: null for a slug that is not loaded, else the tree
BuildReductionChain(slug, nodes) ==
  IF slug \notin DOMAIN nodes THEN NullTree
  ELSE Walk(slug, {}, 0, nodes)

\* the order in which loadAllNodes fills the map, which every loop over
\* nodes.values() follows: level folder by level folder, then by file name
LevelIndex(level) ==
  CASE level = "percept" -> 1
    [] level = "axiom" -> 2
    [] level = "principle" -> 3
    [] level = "application" -> 4

Before(a, b, nodes) ==
  \/ LevelIndex(nodes[a].level) < LevelIndex(nodes[b].level)
  \/ LevelIndex(nodes[a].level) = LevelIndex(nodes[b].level) /\ a < b

RECURSIVE OrderOf(_, _)
OrderOf(S, nodes) ==
  IF S = {} THEN <<>>
  ELSE LET first == CHOOSE a \in S : \A b \in S \ {a} : Before(a, b, nodes)
       IN <<first>> \o OrderOf(S \ {first}, nodes)

LoadOrder(nodes) == OrderOf(DOMAIN nodes, nodes)

RECURSIVE IncomingTo(_, _, _)
\* the nodes that list target, in load order, once per entry
IncomingTo(order, target, nodes) ==
  IF order = <<>> THEN <<>>
  ELSE Repeat(Head(order), CountIn(nodes[Head(order)].reduces_to, target))
       \o IncomingTo(Tail(order), target, nodes)

\* buildIncomingLinks with its second loop left out: no slug has an incoming
\* link
NoIncomingLinks(nodes) ==
  [t \in DOMAIN nodes \cup UNION {Range(nodes[s].reduces_to) : s \in DOMAIN nodes} |-> <<>>]

\* buildIncomingLinks: for each slug, loaded or only named, who lists it
BuildIncomingLinks(nodes) ==
  [t \in DOMAIN nodes \cup UNION {Range(nodes[s].reduces_to) : s \in DOMAIN nodes} |->
     IncomingTo(LoadOrder(nodes), t, nodes)]

\* validateGraph, the per-node part, with one broken_link per missing target
\* instead of one per entry
NodeIssuesPerTarget(slug, nodes, master, aged) ==
  LET node == nodes[slug]
      firstAt(j) == \A k \in 1..(j - 1) : node.reduces_to[k] # node.reduces_to[j]
  IN {[slug |-> slug, type |-> "broken_link", at |-> i] :
        i \in {j \in 1..Len(node.reduces_to) :
                 node.reduces_to[j] \notin DOMAIN nodes /\ firstAt(j)}}
     \cup
     {[slug |-> slug, type |-> "level_mismatch", at |-> i] :
        i \in {j \in 1..Len(node.reduces_to) :
                 /\ node.reduces_to[j] \in DOMAIN nodes
                 /\ LEVEL_RANK(node.level) <= LEVEL_RANK(nodes[node.reduces_to[j]].level)}}
     \cup
     (IF ~IsBedrock(node.level) /\ node.reduces_to = <<>>
      THEN {[slug |-> slug, type |-> "missing_reduction", at |-> 0]} ELSE {})
     \cup
     {[slug |-> slug, type |-> "rogue_tag", at |-> i] :
        i \in {j \in 1..Len(node.tags) : node.tags[j] \notin master}}
     \cup
     (IF ~IsBedrock(node.level) /\ node.status = TENTATIVE /\ slug \in aged
      THEN {[slug |-> slug, type |-> "stale_tentative", at |-> 0]} ELSE {})

\* validateGraph, the per-node part.  at is the position of the entry the
\* issue is about (0 for an issue about the node as a whole); aged is the set
\* of slugs whose created is more than 14 days before the scan.
NodeIssues(slug, nodes, master, aged) ==
  LET node == nodes[slug]
  IN {[slug |-> slug, type |-> "broken_link", at |-> i] :
        i \in {j \in 1..Len(node.reduces_to) : node.reduces_to[j] \notin DOMAIN nodes}}
     \cup
     {[slug |-> slug, type |-> "level_mismatch", at |-> i] :
        i \in {j \in 1..Len(node.reduces_to) :
                 /\ node.reduces_to[j] \in DOMAIN nodes
                 /\ LEVEL_RANK(node.level) <= LEVEL_RANK(nodes[node.reduces_to[j]].level)}}
     \cup
     (IF ~IsBedrock(node.level) /\ node.reduces_to = <<>>
      THEN {[slug |-> slug, type |-> "missing_reduction", at |-> 0]} ELSE {})
     \cup
     {[slug |-> slug, type |-> "rogue_tag", at |-> i] :
        i \in {j \in 1..Len(node.tags) : node.tags[j] \notin master}}
     \cup
     (IF ~IsBedrock(node.level) /\ node.status = TENTATIVE /\ slug \in aged
      THEN {[slug |-> slug, type |-> "stale_tentative", at |-> 0]} ELSE {})

RECURSIVE EntriesTo(_, _, _)
EntriesTo(S, target, nodes) ==
  IF S = {} THEN 0
  ELSE LET n == CHOOSE x \in S : TRUE
       IN CountIn(nodes[n].reduces_to, target) + EntriesTo(S \ {n}, target, nodes)

\* the in-degree map: one count per reduces_to entry whose target exists
InDegree(nodes) == [s \in DOMAIN nodes |-> EntriesTo(DOMAIN nodes, s, nodes)]

\* the inner loop of Kahn's algorithm without the push of a target whose
\* in-degree has come down to zero
KahnTargetsWithoutPush(targets, queue, inDegree, nodes) ==
  IF targets = <<>> THEN [queue |-> queue, inDegree |-> inDegree]
  ELSE [queue |-> queue,
        inDegree |-> [t \in DOMAIN inDegree |->
                        inDegree[t] - CountIn(targets, t)]]

RECURSIVE KahnTargets(_, _, _, _)
\* the inner loop of Kahn's algorithm over the targets of the current node
KahnTargets(targets, queue, inDegree, nodes) ==
  IF targets = <<>> THEN [queue |-> queue, inDegree |-> inDegree]
  ELSE LET target == Head(targets)
       IN IF target \notin DOMAIN inDegree
          THEN KahnTargets(Tail(targets), queue, inDegree, nodes)
          ELSE LET newDeg == inDegree[target] - 1
               IN KahnTargets(Tail(targets),
                              IF newDeg = 0 THEN Append(queue, target) ELSE queue,
                              [inDegree EXCEPT ![target] = newDeg], nodes)

RECURSIVE Kahn(_, _, _, _)
Kahn(queue, inDegree, processed, nodes) ==
  IF queue = <<>> THEN [inDegree |-> inDegree, processed |-> processed]
  ELSE LET step == KahnTargets(nodes[Head(queue)].reduces_to, Tail(queue), inDegree, nodes)
       IN Kahn(step.queue, step.inDegree, processed + 1, nodes)

CycleIssues(nodes) ==
  LET inDegree == InDegree(nodes)
      queue == OrderOf({s \in DOMAIN nodes : inDegree[s] = 0}, nodes)
      done == Kahn(queue, inDegree, 0, nodes)
  IN IF done.processed < Cardinality(DOMAIN nodes)
     THEN {[slug |-> s, type |-> "cycle", at |-> 0] :
             s \in {x \in DOMAIN nodes : done.inDegree[x] > 0}}
     ELSE {}

ValidateGraph(nodes, master, aged) ==
  UNION {NodeIssues(s, nodes, master, aged) : s \in DOMAIN nodes} \cup CycleIssues(nodes)

\* ----------------------------------------------------------------- tags.ts
RECURSIVE ValidateTags(_, _)
ValidateTags(tags, master) ==
  IF tags = <<>> THEN "ok"
  ELSE IF Head(tags) \notin master THEN "RogueTag"
  ELSE ValidateTags(Tail(tags), master)

\* ----------------------------------------------------------------- node.ts
\* createNodeFile without its two duplicate checks: the file is written
\* whatever is there
CreateNodeFileOverwriting(files, slug, file, existingSlugs) ==
  [result |-> "ok", files |-> Put(files, slug, file)]

\* createNodeFile: the duplicate check against the loaded slugs, then the
\* exclusive create, which fails when the file is already there.
CreateNodeFile(files, slug, file, existingSlugs) ==
  IF slug \in existingSlugs THEN [result |-> "DuplicateSlug", files |-> files]
  ELSE IF slug \in DOMAIN files THEN [result |-> "DuplicateSlug", files |-> files]
  ELSE [result |-> "ok", files |-> Put(files, slug, file)]

NoChange == "none"

\* the fields an update names; a field that is not named is left as it is
NoFields == [k \in {} |-> 0]
StatusField(status) == IF status = NoChange THEN NoFields ELSE [status |-> status]
TagsField(changed, tags) == IF changed THEN [tags |-> tags] ELSE NoFields
ReducesToField(changed, reducesTo) ==
  IF changed THEN [reduces_to |-> reducesTo] ELSE NoFields

\* updateNodeFile applying the tags and the links it is given but not the
\* status
UpdateNodeFileKeepStatus(files, slug, updates) ==
  Put(files, slug,
      [k \in DOMAIN files[slug] |->
         IF k \in DOMAIN updates \cap {"tags", "reduces_to"}
         THEN updates[k] ELSE files[slug][k]])

\* updateNodeFile: reads the file, replaces status, tags and reduces_to when
\* they are given, writes
UpdateNodeFile(files, slug, updates) ==
  Put(files, slug,
      [k \in DOMAIN files[slug] |->
         IF k \in DOMAIN updates \cap {"status", "tags", "reduces_to"}
         THEN updates[k] ELSE files[slug][k]])

\* the same write for the merge metadata
WriteMergeFields(files, slug, updates) ==
  Put(files, slug,
      [k \in DOMAIN files[slug] |->
         IF k \in DOMAIN updates \cap DOMAIN MergeFields
         THEN updates[k] ELSE files[slug][k]])

\* resolveNodeSlug with an exact slug as the query
ResolveNodeSlug(query, nodes) == IF query \in DOMAIN nodes THEN query ELSE 0

\* ------------------------------------------------- node.ts, names and text
\* A text is a sequence of tokens: the timestamp that opens a slug, or a word.
Word(w) == [stamp |-> 0, word |-> w]
Stamp(s) == [stamp |-> s, word |-> ""]

\* toLowerCase on a word
Lower(w) ==
  IF w = "Risk" THEN "risk" ELSE IF w = "Health" THEN "health" ELSE w

\* query.toLowerCase().trim(), token by token
LowerText(text) == [i \in 1..Len(text) |-> [text[i] EXCEPT !.word = Lower(@)]]

\* the title given to the node created in second s
TitleOf(s) ==
  LET titles == <<<<Word("Risk")>>, <<Word("risk"), Word("health")>>, <<Word("Health")>>,
                  <<Word("wealth"), Word("and"), Word("Health")>>>>
  IN titles[((s - 1) % 4) + 1]

\* the words of a title that fit in a slug of MAX_SLUG_LENGTH characters
MaxSlugWords == 2

\* slugify: the title in lower case, cut to the length of a slug
Slugify(title) ==
  LET t == LowerText(title)
  IN SubSeq(t, 1, IF Len(t) < MaxSlugWords THEN Len(t) ELSE MaxSlugWords)

\* generateFilename without the extension: the timestamp, then the slugified title
SlugText(s) == <<Stamp(s)>> \o Slugify(TitleOf(s))

\* String.prototype.startsWith and includes
StartsWith(text, q) == Len(q) <= Len(text) /\ SubSeq(text, 1, Len(q)) = q
IncludesText(text, q) ==
  \E i \in 0..(Len(text) - Len(q)) : SubSeq(text, i + 1, i + Len(q)) = q

\* a lookup that settles for the first node of the first tier that matches
FindNodeBySlugFirstMatch(query, nodes) ==
  LET q == LowerText(query)
      exact == {s \in DOMAIN nodes : SlugText(s) = q}
      prefixMatches == {s \in DOMAIN nodes : StartsWith(SlugText(s), q)}
      slugSubMatches == {s \in DOMAIN nodes : IncludesText(SlugText(s), q)}
      titleSubMatches == {s \in DOMAIN nodes : IncludesText(LowerText(TitleOf(s)), q)}
      One(S) == [slug |-> CHOOSE s \in S : \A t \in S : s <= t, ambiguous |-> FALSE]
  IN IF exact # {} THEN One(exact)
     ELSE IF prefixMatches # {} THEN One(prefixMatches)
     ELSE IF slugSubMatches # {} THEN One(slugSubMatches)
     ELSE IF titleSubMatches # {} THEN One(titleSubMatches)
     ELSE [slug |-> 0, ambiguous |-> FALSE]

\* findNodeBySlug: exact match, then a unique prefix match, then a unique
\* substring match on the slug, then a unique substring match on the title;
\* slug 0 when nothing or more than one node matches
FindNodeBySlug(query, nodes) ==
  LET q == LowerText(query)
      exact == {s \in DOMAIN nodes : SlugText(s) = q}
      prefixMatches == {s \in DOMAIN nodes : StartsWith(SlugText(s), q)}
      slugSubMatches == {s \in DOMAIN nodes : IncludesText(SlugText(s), q)}
      titleSubMatches == {s \in DOMAIN nodes : IncludesText(LowerText(TitleOf(s)), q)}
      One(S) == [slug |-> CHOOSE s \in S : TRUE, ambiguous |-> FALSE]
  IN IF exact # {} THEN One(exact)
     ELSE IF Cardinality(prefixMatches) = 1 THEN One(prefixMatches)
     ELSE IF Cardinality(slugSubMatches) = 1 THEN One(slugSubMatches)
     ELSE IF Cardinality(titleSubMatches) = 1 THEN One(titleSubMatches)
     ELSE [slug |-> 0,
           ambiguous |-> prefixMatches \cup slugSubMatches \cup titleSubMatches # {}]

\* resolveNodeSlug with a text as the query: the slug, or 0 when it throws
ResolveNodeSlugText(query, nodes) == FindNodeBySlug(query, nodes).slug

\* ------------------------------------------------------------------ add.ts
Fail(kind, files) == [result |-> kind, files |-> files]

AddOutcome(files, master, newSlug, req) ==
  LET isBedrock == IsBedrock(req.level)
      nodes == LoadAllNodes(files)
  IN IF req.level \notin LEVELS THEN Fail("InvalidLevel", files)
     ELSE IF req.status \notin STATUSES THEN Fail("InvalidStatus", files)
     ELSE IF req.proposition = "" THEN Fail("EmptyProposition", files)
     ELSE IF ValidateTags(req.tags, master) # "ok" THEN Fail("RogueTag", files)
     ELSE IF ~isBedrock /\ req.reduces_to = <<>> THEN Fail("MissingReduction", files)
     ELSE IF isBedrock /\ req.reduces_to # <<>> THEN Fail("BedrockReducesTo", files)
     ELSE LET v == ValidateReductionLinks(newSlug, req.level, req.reduces_to, nodes)
          IN IF v # "ok" THEN Fail(v, files)
             ELSE CreateNodeFile(files, newSlug,
                                 NodeFile(req.level, req.status, req.reduces_to, req.tags),
                                 DOMAIN nodes)

\* --------------------------------------------------------------- update.ts
UpdateOutcome(files, master, query, req) ==
  LET nodes == LoadAllNodes(files)
      slug == ResolveNodeSlug(query, nodes)
  IN IF slug = 0 THEN Fail("NotFound", files)
     ELSE
     LET node == nodes[slug]
         tagCheck == IF req.addTag = <<>> THEN "ok" ELSE ValidateTags(req.addTag, master)
         tags1 == AppendNew(node.tags, req.addTag)
         tags2 == Filter(tags1, Range(req.removeTag))
         tagsChanged == Len(tags1) # Len(node.tags) \/ Len(tags2) # Len(tags1)
         linkCheck == IF req.addReducesTo = <<>> THEN "ok"
                      ELSE ValidateReductionLinks(slug, node.level, req.addReducesTo, nodes)
         reduces1 == AppendNew(node.reduces_to, req.addReducesTo)
         reduces2 == Filter(reduces1, req.removeReducesTo)
         reducesChanged == Len(reduces1) # Len(node.reduces_to)
                           \/ Len(reduces2) # Len(reduces1)
         forced == /\ reducesChanged
                   /\ node.level # "percept"
                   /\ reduces2 = <<>>
                   /\ req.status = NoChange
         newStatus == IF forced THEN TENTATIVE ELSE req.status
     IN IF tagCheck # "ok" THEN Fail(tagCheck, files)
        ELSE IF linkCheck # "ok" THEN Fail(linkCheck, files)
        ELSE IF req.status = NoChange /\ ~tagsChanged /\ ~reducesChanged
             THEN Fail("NoUpdates", files)
        ELSE [result |-> "ok",
              files |-> UpdateNodeFile(files, slug,
                                       StatusField(newStatus)
                                       @@ TagsField(tagsChanged, tags2)
                                       @@ ReducesToField(reducesChanged, reduces2))]

\* --------------------------------------------------------------- delete.ts
\* delete that also takes the deleted slug out of every reduces_to list
DeleteOutcomeCascading(files, query) ==
  LET nodes == LoadAllNodes(files)
      slug == ResolveNodeSlug(query, nodes)
  IN IF slug = 0 THEN Fail("NotFound", files)
     ELSE IF nodes[slug].status = VALIDATED /\ BuildIncomingLinks(nodes)[slug] # <<>>
          THEN Fail("DeleteBlocked", files)
     ELSE [result |-> "ok",
           files |-> [x \in DOMAIN files \ {slug} |->
                        [files[x] EXCEPT !.reduces_to = Filter(@, {slug})]]]

\* delete: the node is resolved, a Validated node that is listed is kept,
\* and otherwise its file is unlinked
DeleteOutcome(files, query) ==
  LET nodes == LoadAllNodes(files)
      slug == ResolveNodeSlug(query, nodes)
  IN IF slug = 0 THEN Fail("NotFound", files)
     ELSE IF nodes[slug].status = VALIDATED /\ BuildIncomingLinks(nodes)[slug] # <<>>
          THEN Fail("DeleteBlocked", files)
     ELSE [result |-> "ok", files |-> Drop(files, slug)]

\* resolveNodeSlug ahead of a command that names its node by a text: the
\* command runs on the one node found, and throws when the text is ambiguous
\* or matches nothing
DeleteByText(files, query) ==
  LET found == FindNodeBySlug(query, LoadAllNodes(files))
  IN IF found.ambiguous THEN Fail("AmbiguousMatch", files)
     ELSE IF found.slug = 0 THEN Fail("NotFound", files)
     ELSE DeleteOutcome(files, found.slug)

UpdateByText(files, master, query, req) ==
  LET found == FindNodeBySlug(query, LoadAllNodes(files))
  IN IF found.ambiguous THEN Fail("AmbiguousMatch", files)
     ELSE IF found.slug = 0 THEN Fail("NotFound", files)
     ELSE UpdateOutcome(files, master, found.slug, req)

\* ------------------------------------------------- query.ts, query related
\* one hop from s in either direction: the loaded nodes it lists and the
\* nodes that list it
Neighbours(s, nodes, incomingLinks) ==
  (Range(nodes[s].reduces_to) \cap DOMAIN nodes) \cup Range(incomingLinks[s])

RECURSIVE HopsFrom(_, _, _, _, _, _)
\* the breadth-first walk from the nodes met so far, every one of them
\* expanded both ways: the hop at which n is met, 0 when the bound is passed
HopsFrom(met, n, hop, depth, nodes, incomingLinks) ==
  IF hop > depth THEN 0
  ELSE LET next == met \cup UNION {Neighbours(s, nodes, incomingLinks) : s \in met}
       IN IF n \in next THEN hop
          ELSE IF next = met THEN 0
          ELSE HopsFrom(next, n, hop + 1, depth, nodes, incomingLinks)

\* the hop distance from a seed to a node within the bound; 0 when the node is
\* the seed or is out of reach
HopDistance(seed, n, depth, nodes, incomingLinks) ==
  IF n = seed THEN 0 ELSE HopsFrom({seed}, n, 1, depth, nodes, incomingLinks)

\* the least distance among seed-distance pairs
MinDistance(reached) ==
  CHOOSE d \in {p[2] : p \in reached} : \A p \in reached : d <= p[2]

\* the score in sixtieths: reach_count x 2.0 + 1.0 / min_distance, + 0.5 if
\* Validated, + 0.3 for an application, + 0.2 for a principle
Score(reachCount, minDistance, status, level) ==
  reachCount * 120 + (60 \div minDistance)
  + (IF status = VALIDATED THEN 30 ELSE 0)
  + (IF level = "application" THEN 18 ELSE IF level = "principle" THEN 12 ELSE 0)

\* the seeds that reach n within depth hops, each with its distance
ReachedFrom(entryPoints, n, nodes, incomingLinks, depth) ==
  {p \in {<<seed, HopDistance(seed, n, depth, nodes, incomingLinks)>> : seed \in entryPoints} :
     p[2] > 0}

\* findRelatedNodes with every seed counted as reaching every discovered node
FindRelatedNodesEverySeed(entryPoints, nodes, incomingLinks, depth) ==
  {[slug |-> f[1], level |-> nodes[f[1]].level, status |-> nodes[f[1]].status,
    reach_count |-> Cardinality(entryPoints),
    min_distance |-> MinDistance(f[2]),
    score |-> Score(Cardinality(entryPoints), MinDistance(f[2]),
                    nodes[f[1]].status, nodes[f[1]].level)] :
   f \in {g \in {<<n, ReachedFrom(entryPoints, n, nodes, incomingLinks, depth)>> :
                   n \in DOMAIN nodes} : g[2] # {}}}

\* findRelatedNodes, before the results are ordered and cut to the limit:
\* every node some seed reaches within depth hops, with the number of seeds
\* that reach it, its least distance from a seed, and its score
FindRelatedNodes(entryPoints, nodes, incomingLinks, depth) ==
  {[slug |-> f[1], level |-> nodes[f[1]].level, status |-> nodes[f[1]].status,
    reach_count |-> Cardinality(f[2]),
    min_distance |-> MinDistance(f[2]),
    score |-> Score(Cardinality(f[2]), MinDistance(f[2]),
                    nodes[f[1]].status, nodes[f[1]].level)] :
   f \in {g \in {<<n, ReachedFrom(entryPoints, n, nodes, incomingLinks, depth)>> :
                   n \in DOMAIN nodes} : g[2] # {}}}

\* the query as a tag name: one word in lower case
QueryAsTag(query) ==
  IF Len(query) = 1 /\ query[1].stamp = 0 THEN Lower(query[1].word) ELSE ""

\* the entry points with the tag match tried before the slug match
EntryPointsTagFirst(query, nodes) ==
  LET slug == ResolveNodeSlugText(query, nodes)
      tagMatches == {n \in DOMAIN nodes : Includes(nodes[n].tags, QueryAsTag(query))}
      titleMatches ==
        {n \in DOMAIN nodes : IncludesText(LowerText(TitleOf(n)), LowerText(query))}
  IN IF tagMatches # {} THEN [method |-> "tag", seeds |-> tagMatches]
     ELSE IF slug # 0 THEN [method |-> "slug", seeds |-> {slug}]
     ELSE IF titleMatches # {} THEN [method |-> "title", seeds |-> titleMatches]
     ELSE [method |-> "none", seeds |-> {}]

\* entry point resolution: the slug match, else the tag match, else the title
\* match
EntryPoints(query, nodes) ==
  LET slug == ResolveNodeSlugText(query, nodes)
      tagMatches == {n \in DOMAIN nodes : Includes(nodes[n].tags, QueryAsTag(query))}
      titleMatches ==
        {n \in DOMAIN nodes : IncludesText(LowerText(TitleOf(n)), LowerText(query))}
  IN IF slug # 0 THEN [method |-> "slug", seeds |-> {slug}]
     ELSE IF tagMatches # {} THEN [method |-> "tag", seeds |-> tagMatches]
     ELSE IF titleMatches # {} THEN [method |-> "title", seeds |-> titleMatches]
     ELSE [method |-> "none", seeds |-> {}]

\* query related: the entry points, then the search from them
RelatedOutcome(files, query, depth) ==
  LET nodes == LoadAllNodes(files)
      entry == EntryPoints(query, nodes)
  IN IF entry.seeds = {}
     THEN [result |-> "BadInput", method |-> entry.method, seeds |-> {}, results |-> {}]
     ELSE [result |-> "ok", method |-> entry.method, seeds |-> entry.seeds,
           results |-> FindRelatedNodes(entry.seeds, nodes,
                                        BuildIncomingLinks(nodes), depth)]

\* ---------------------------------------------------------------- dedup.ts
Out(kind, files, trashed) == [result |-> kind, files |-> files, trash |-> trashed]

RECURSIVE MarkGroup(_, _, _)
\* group create, "update each node with the group ID"
MarkGroup(slugs, groupId, files) ==
  IF slugs = <<>> THEN files
  ELSE MarkGroup(Tail(slugs), groupId,
                 WriteMergeFields(files, Head(slugs), [deduplication_group |-> groupId]))

\* the group create action of dedup.ts: every named node exists, all are at
\* the level of the first, none carries a group id; then each is marked
GroupCreateOutcome(files, nodeSlugs, groupId, dryRun) ==
  LET nodes == LoadAllNodes(files)
  IN IF nodeSlugs = <<>> THEN [result |-> "NoNodes", files |-> files]
     ELSE IF \E i \in 1..Len(nodeSlugs) : nodeSlugs[i] \notin DOMAIN nodes
          THEN [result |-> "NotFound", files |-> files]
     ELSE IF \E i \in 1..Len(nodeSlugs) :
               nodes[nodeSlugs[i]].level # nodes[nodeSlugs[1]].level
          THEN [result |-> "MixedLevels", files |-> files]
     ELSE IF \E i \in 1..Len(nodeSlugs) : nodes[nodeSlugs[i]].deduplication_group # 0
          THEN [result |-> "AlreadyGrouped", files |-> files]
     ELSE IF dryRun THEN [result |-> "dryrun", files |-> files]
     ELSE [result |-> "ok", files |-> MarkGroup(nodeSlugs, groupId, files)]

RECURSIVE InGroup(_, _, _)
\* the loaded nodes that carry the group id, in load order
InGroup(order, groupId, nodes) ==
  IF order = <<>> THEN <<>>
  ELSE IF nodes[Head(order)].deduplication_group = groupId
       THEN <<Head(order)>> \o InGroup(Tail(order), groupId, nodes)
  ELSE InGroup(Tail(order), groupId, nodes)

\* merge, "determine old nodes": the group's members, then the named nodes
\* (in the group case only those not yet in the list)
OldNodes(req, nodes) ==
  LET named == req.oldNodeSlugs
      missing == \E i \in 1..Len(named) : named[i] \notin DOMAIN nodes
      grouped == InGroup(LoadOrder(nodes), req.groupId, nodes)
  IN IF req.groupId # 0
     THEN IF grouped = <<>> THEN [result |-> "NoNodesInGroup", old |-> <<>>]
          ELSE IF missing THEN [result |-> "NotFound", old |-> <<>>]
          ELSE [result |-> "ok", old |-> AppendNew(grouped, named)]
     ELSE IF missing THEN [result |-> "NotFound", old |-> <<>>]
     ELSE IF named = <<>> THEN [result |-> "NoOldNodes", old |-> <<>>]
     ELSE [result |-> "ok", old |-> named]

\* the level and already-merged checks applied to the first old node only
CheckFirstOldNode(old, expectedLevel, level, nodes) ==
  IF old = <<>> THEN "ok"
  ELSE LET node == nodes[Head(old)]
       IN IF node.level # level THEN "LevelDiffers"
          ELSE IF node.merged_into # 0 THEN "AlreadyMerged"
          ELSE "ok"

RECURSIVE CheckOldNodes(_, _, _, _)
\* merge, "validate all at same level": level against the first node's, then
\* against the requested level, then the already-merged mark
CheckOldNodes(old, expectedLevel, level, nodes) ==
  IF old = <<>> THEN "ok"
  ELSE LET node == nodes[Head(old)]
       IN IF node.level # expectedLevel THEN "MixedLevels"
          ELSE IF node.level # level THEN "LevelDiffers"
          ELSE IF node.merged_into # 0 THEN "AlreadyMerged"
          ELSE CheckOldNodes(Tail(old), expectedLevel, level, nodes)

RECURSIVE MoveOldNodesCopying(_, _, _, _)
\* the move loop leaving a copy of every old node where it was
MoveOldNodesCopying(old, canonicalSlug, files, trashed) ==
  IF old = <<>> THEN Out("ok", files, trashed)
  ELSE IF Head(old) \notin DOMAIN files THEN Out("FilesystemError", files, trashed)
  ELSE LET stamped == WriteMergeFields(files, Head(old),
                                     [merged_into |-> canonicalSlug,
                                      deduplication_group |-> 0])
       IN MoveOldNodesCopying(Tail(old), canonicalSlug, stamped,
                              Put(trashed, Head(old), stamped[Head(old)]))

RECURSIVE MoveOldNodes(_, _, _, _)
\* merge, "move old nodes to trash": stamp the file, then rename it.  A file
\* that is no longer at its path stops the command where it is.
MoveOldNodes(old, canonicalSlug, files, trashed) ==
  IF old = <<>> THEN Out("ok", files, trashed)
  ELSE IF Head(old) \notin DOMAIN files THEN Out("FilesystemError", files, trashed)
  ELSE LET stamped == WriteMergeFields(files, Head(old),
                                     [merged_into |-> canonicalSlug,
                                      deduplication_group |-> 0])
       IN MoveOldNodes(Tail(old), canonicalSlug,
                       Drop(files, Head(old)),
                       Put(trashed, Head(old), stamped[Head(old)]))

\* the mapping that sends every entry of a list that names an old node to the
\* new slug, the entries that name other nodes included
MapEveryRef(reducesTo, from, to) ==
  IF Range(reducesTo) \cap from = {} THEN reducesTo
  ELSE [i \in 1..Len(reducesTo) |-> to]

RECURSIVE MapRefs(_, _, _)
\* reduces_to.map(ref => from.includes(ref) ? to : ref)
MapRefs(reducesTo, from, to) ==
  IF reducesTo = <<>> THEN <<>>
  ELSE <<IF Head(reducesTo) \in from THEN to ELSE Head(reducesTo)>>
       \o MapRefs(Tail(reducesTo), from, to)

RECURSIVE RewriteRefs(_, _, _, _, _, _)
\* the reference rewriting of merge and of undo, over the nodes loaded at the
\* start of the command: every entry in `from` becomes `to`
RewriteRefs(order, skip, from, to, nodes, files) ==
  IF order = <<>> THEN [result |-> "ok", files |-> files]
  ELSE LET slug == Head(order)
           refs == nodes[slug].reduces_to
       IN IF slug = skip \/ Range(refs) \cap from = {}
          THEN RewriteRefs(Tail(order), skip, from, to, nodes, files)
          ELSE IF slug \notin DOMAIN files
               THEN [result |-> "FilesystemError", files |-> files]
          ELSE RewriteRefs(Tail(order), skip, from, to, nodes,
                           UpdateNodeFile(files, slug,
                                          [reduces_to |-> MapRefs(refs, from, to)]))

\* the validation that ends merge and undo with the age test left out
RevalidateLinksAndTags(files, master, aged) ==
  IF ValidateGraph(LoadAllNodes(files), master, {}) # {}
  THEN "ValidationFailed" ELSE "ok"

\* the validation that ends merge and undo
Revalidate(files, master, aged) ==
  IF ValidateGraph(LoadAllNodes(files), master, aged) # {}
  THEN "ValidationFailed" ELSE "ok"

RECURSIVE MergedFrom(_, _, _)
MergedFrom(old, nodes, isTrashed) ==
  IF old = <<>> THEN <<>>
  ELSE <<[id |-> Head(old), original_status |-> nodes[Head(old)].status,
          trashed |-> isTrashed]>>
       \o MergedFrom(Tail(old), nodes, isTrashed)

\* the canonical node taking the status of the first old node
CanonicalNodeWithFirstStatus(level, old, nodes) ==
  [merged_from |-> MergedFrom(old, nodes, FALSE)]
  @@ NodeFile(level, nodes[old[1]].status, nodes[old[1]].reduces_to, <<>>)

\* merge, "create new canonical node": the links of the first old node,
\* Tentative, no tags
CanonicalNode(level, old, nodes) ==
  [merged_from |-> MergedFrom(old, nodes, FALSE)]
  @@ NodeFile(level, TENTATIVE, nodes[old[1]].reduces_to, <<>>)

\* the merge action of dedup.ts
MergeOutcome(files, trashed, master, newSlug, req, aged) ==
  LET nodes == LoadAllNodes(files)
      found == OldNodes(req, nodes)
      old == found.old
      check == CheckOldNodes(old, nodes[old[1]].level, req.level, nodes)
      canonical == CanonicalNode(req.level, old, nodes)
      created == CreateNodeFile(files, newSlug, canonical, DOMAIN nodes)
      moved == MoveOldNodes(old, newSlug, created.files, trashed)
      recorded == WriteMergeFields(moved.files, newSlug,
                                   [merged_from |-> MergedFrom(old, nodes, TRUE)])
      rewritten == RewriteRefs(LoadOrder(nodes), newSlug, Range(old), newSlug,
                               nodes, recorded)
  IN IF req.level \notin LEVELS THEN Out("InvalidLevel", files, trashed)
     ELSE IF found.result # "ok" THEN Out(found.result, files, trashed)
     ELSE IF check # "ok" THEN Out(check, files, trashed)
     ELSE IF req.dryRun THEN Out("dryrun", files, trashed)
     ELSE IF created.result # "ok" THEN Out(created.result, files, trashed)
     ELSE IF moved.result # "ok" THEN moved
     ELSE IF rewritten.result # "ok" THEN Out(rewritten.result, rewritten.files, moved.trash)
     ELSE Out(Revalidate(rewritten.files, master, aged \ {newSlug}),
              rewritten.files, moved.trash)

RECURSIVE RestoreMembersKeepFirst(_, _, _, _)
\* the restore loop without the comparison of created timestamps: the first
\* entry of merged_from stays the oldest
RestoreMembersKeepFirst(entries, oldest, files, trashed) ==
  IF entries = <<>> THEN [result |-> "ok", files |-> files, trash |-> trashed,
                          oldest |-> oldest]
  ELSE LET entry == Head(entries)
           id == entry.id
           back == Put(files, id, trashed[id])
           restoredNodes == LoadAllNodes(back)
           restored == WriteMergeFields(
                         UpdateNodeFile(back, id, [status |-> entry.original_status]),
                         id, [merged_into |-> 0, deduplication_group |-> 0])
       IN IF ~entry.trashed \/ id \notin DOMAIN trashed
          THEN [result |-> "FilesystemError", files |-> files, trash |-> trashed,
                oldest |-> oldest]
          ELSE IF id \notin DOMAIN restoredNodes
               THEN [result |-> "RestoreFailed", files |-> back,
                     trash |-> Drop(trashed, id), oldest |-> oldest]
          ELSE RestoreMembersKeepFirst(Tail(entries), oldest, restored, Drop(trashed, id))

RECURSIVE RestoreMembers(_, _, _, _)
\* undo, "restore each merged node": rename back, reload, restore the status,
\* keep the member with the earliest created as the oldest
RestoreMembers(entries, oldest, files, trashed) ==
  IF entries = <<>> THEN [result |-> "ok", files |-> files, trash |-> trashed,
                          oldest |-> oldest]
  ELSE LET entry == Head(entries)
           id == entry.id
           back == Put(files, id, trashed[id])
           restoredNodes == LoadAllNodes(back)
           restored == WriteMergeFields(
                         UpdateNodeFile(back, id, [status |-> entry.original_status]),
                         id, [merged_into |-> 0, deduplication_group |-> 0])
       IN IF ~entry.trashed \/ id \notin DOMAIN trashed
          THEN [result |-> "FilesystemError", files |-> files, trash |-> trashed,
                oldest |-> oldest]
          ELSE IF id \notin DOMAIN restoredNodes
               THEN [result |-> "RestoreFailed", files |-> back,
                     trash |-> Drop(trashed, id), oldest |-> oldest]
          ELSE IF oldest \notin DOMAIN restoredNodes
               THEN [result |-> "TypeError", files |-> restored,
                     trash |-> Drop(trashed, id), oldest |-> oldest]
          ELSE RestoreMembers(Tail(entries), IF id < oldest THEN id ELSE oldest,
                              restored, Drop(trashed, id))

UndoOutcome(files, trashed, master, canonicalSlug, dryRun, aged) ==
  LET nodes == LoadAllNodes(files)
      entries == nodes[canonicalSlug].merged_from
      undone == Drop(files, canonicalSlug)
      members == RestoreMembers(entries, entries[1].id, undone, trashed)
      rewritten == RewriteRefs(LoadOrder(nodes), 0, {canonicalSlug}, members.oldest,
                               nodes, members.files)
  IN IF canonicalSlug \notin DOMAIN nodes THEN Out("NotFound", files, trashed)
     ELSE IF entries = <<>> THEN Out("NotAMerge", files, trashed)
     ELSE IF dryRun THEN Out("dryrun", files, trashed)
     ELSE IF members.result # "ok" THEN Out(members.result, members.files, members.trash)
     ELSE IF rewritten.result # "ok"
          THEN Out(rewritten.result, rewritten.files, members.trash)
     ELSE Out(Revalidate(rewritten.files, master, aged), rewritten.files, members.trash)

\* ------------------------------------------------------------- validate.ts
\* --fix-auto taking every stale Tentative, with links or without
StaleTentatives(nodes, issues) ==
  {i.slug : i \in {j \in issues : j.type = "stale_tentative"}}

\* --fix-auto, the nodes it picks: the stale Tentatives that are not bedrock
\* and have no links
FixAutoTargets(nodes, issues) ==
  {s \in {i.slug : i \in {j \in issues : j.type = "stale_tentative"}} :
     /\ s \in DOMAIN nodes
     /\ ~IsBedrock(nodes[s].level)
     /\ nodes[s].reduces_to = <<>>}

RECURSIVE DropAll(_, _)
\* unlink, file by file
DropAll(files, S) ==
  IF S = {} THEN files
  ELSE LET s == CHOOSE x \in S : TRUE IN DropAll(Drop(files, s), S \ {s})

\* validate with --fix-auto deleting also under --dry-run
ValidateOutcomeAlwaysDeleting(files, master, fixAuto, dryRun, aged) ==
  LET nodes == LoadAllNodes(files)
      targets == IF fixAuto THEN FixAutoTargets(nodes, ValidateGraph(nodes, master, aged))
                 ELSE {}
      kept == DropAll(files, targets)
  IN [result |-> IF ValidateGraph(LoadAllNodes(kept), master, aged) = {}
                 THEN "ok" ELSE "ValidationError",
      files |-> kept,
      wouldDelete |-> IF dryRun THEN targets ELSE {},
      deletedCount |-> Cardinality(targets)]

\* the validate action: the scan, the deletions of --fix-auto (named but not
\* made under --dry-run), the scan again after deletions, the exit code
ValidateOutcome(files, master, fixAuto, dryRun, aged) ==
  LET nodes == LoadAllNodes(files)
      issues == ValidateGraph(nodes, master, aged)
      targets == IF fixAuto THEN FixAutoTargets(nodes, issues) ELSE {}
      kept == IF dryRun THEN files ELSE DropAll(files, targets)
      left == IF targets # {} /\ ~dryRun
              THEN ValidateGraph(LoadAllNodes(kept), master, aged) ELSE issues
  IN [result |-> IF left = {} THEN "ok" ELSE "ValidationError",
      files |-> kept,
      wouldDelete |-> IF dryRun THEN targets ELSE {},
      deletedCount |-> Cardinality(targets)]

\* merge stopped from outside between the stamping of its first old node and
\* the rename that moves the node away: the canonical node is written and
\* the first old node is still live, marked as merged
MergeKilledOutcome(files, trashed, master, newSlug, req) ==
  LET nodes == LoadAllNodes(files)
      found == OldNodes(req, nodes)
      old == found.old
      check == CheckOldNodes(old, nodes[old[1]].level, req.level, nodes)
      created == CreateNodeFile(files, newSlug, CanonicalNode(req.level, old, nodes),
                                DOMAIN nodes)
  IN IF req.level \notin LEVELS THEN Out("InvalidLevel", files, trashed)
     ELSE IF found.result # "ok" THEN Out(found.result, files, trashed)
     ELSE IF check # "ok" THEN Out(check, files, trashed)
     ELSE IF req.dryRun THEN Out("dryrun", files, trashed)
     ELSE IF created.result # "ok" THEN Out(created.result, files, trashed)
     ELSE Out("killed",
              WriteMergeFields(created.files, old[1],
                               [merged_into |-> newSlug, deduplication_group |-> 0]),
              trashed)

\* the points at which a merge can be stopped from outside once a member has
\* been moved: after the rename of the k-th old node, after the rewrite of the
\* canonical node's record, or after the reference loop has gone through the
\* first j loaded nodes and before it has gone through the last
KillPoints(req, nodes) ==
  LET found == OldNodes(req, nodes)
  IN IF found.result # "ok" THEN {}
     ELSE {[moved |-> k, recorded |-> FALSE, rewritten |-> 0] : k \in 1..Len(found.old)}
          \cup {[moved |-> Len(found.old), recorded |-> TRUE, rewritten |-> j] :
                  j \in 0..(Cardinality(DOMAIN nodes) - 1)}

\* merge stopped from outside at a kill point: the steps up to the point are
\* done as the command does them, the steps after it are not done at all
MergeInterruptedOutcome(files, trashed, master, newSlug, req, point) ==
  LET nodes == LoadAllNodes(files)
      found == OldNodes(req, nodes)
      old == found.old
      check == CheckOldNodes(old, nodes[old[1]].level, req.level, nodes)
      created == CreateNodeFile(files, newSlug, CanonicalNode(req.level, old, nodes),
                                DOMAIN nodes)
      moved == MoveOldNodes(SubSeq(old, 1, point.moved), newSlug, created.files, trashed)
      recorded == WriteMergeFields(moved.files, newSlug,
                                   [merged_from |-> MergedFrom(old, nodes, TRUE)])
      rewritten == RewriteRefs(SubSeq(LoadOrder(nodes), 1, point.rewritten), newSlug,
                               Range(old), newSlug, nodes, recorded)
  IN IF req.level \notin LEVELS THEN Out("InvalidLevel", files, trashed)
     ELSE IF found.result # "ok" THEN Out(found.result, files, trashed)
     ELSE IF check # "ok" THEN Out(check, files, trashed)
     ELSE IF req.dryRun THEN Out("dryrun", files, trashed)
     ELSE IF created.result # "ok" THEN Out(created.result, files, trashed)
     ELSE IF moved.result # "ok" THEN moved
     ELSE IF ~point.recorded THEN Out("killed", moved.files, moved.trash)
     ELSE IF rewritten.result # "ok" THEN Out(rewritten.result, rewritten.files, moved.trash)
     ELSE Out("killed", rewritten.files, moved.trash)

\* --------------------------------------------------- tags.ts, the tag list
\* tags add: a tag that is listed is left alone; otherwise the reason node is
\* resolved and has to be Validated, and the tag joins the list
TagsAddOutcome(master, files, tag, reason) ==
  LET nodes == LoadAllNodes(files)
      cleanTag == Lower(tag)
      reasonSlug == ResolveNodeSlug(reason, nodes)
  IN IF cleanTag \in master THEN [result |-> "exists", master |-> master]
     ELSE IF reasonSlug = 0 THEN [result |-> "NotFound", master |-> master]
     ELSE IF nodes[reasonSlug].status # VALIDATED
          THEN [result |-> "ReasonNotValidated", master |-> master]
     ELSE [result |-> "ok", master |-> master \cup {cleanTag}]

\* tags remove: the tag has to be listed and carried by no loaded node
TagsRemoveOutcome(master, files, tag) ==
  LET nodes == LoadAllNodes(files)
      cleanTag == Lower(tag)
  IN IF cleanTag \notin master THEN [result |-> "NotFound", master |-> master]
     ELSE IF \E n \in DOMAIN nodes : Includes(nodes[n].tags, cleanTag)
          THEN [result |-> "TagInUse", master |-> master]
     ELSE [result |-> "ok", master |-> master \ {cleanTag}]

\* ------------------------------------------------------- command inputs
\* the requests an invocation of add can carry
AddRequests ==
  [level : LEVELS, status : STATUSES, proposition : {"p"},
   reduces_to : SeqsUpTo(Slugs, MaxLinks), tags : {<<>>}]
  \cup {[level |-> "galaxy", status |-> TENTATIVE, proposition |-> "p",
         reduces_to |-> <<>>, tags |-> <<>>],
        [level |-> "percept", status |-> TENTATIVE, proposition |-> "",
         reduces_to |-> <<>>, tags |-> <<>>],
        [level |-> "percept", status |-> TENTATIVE, proposition |-> "p",
         reduces_to |-> <<>>, tags |-> <<"vibes">>]}

\* the flags an invocation of update can carry: a status alone (or nothing),
\* links to add, links to remove, and both
NonEmptyLinks == SeqsUpTo(Slugs, MaxLinks) \ {<<>>}
RemovableLinks == {S \in SUBSET Slugs : S # {} /\ Cardinality(S) <= MaxLinks}

UpdateRequests ==
  [status : STATUSES \cup {NoChange}, addTag : {<<>>}, removeTag : {<<>>},
   addReducesTo : {<<>>}, removeReducesTo : {{}}]
  \cup [status : {VALIDATED, NoChange}, addTag : {<<>>}, removeTag : {<<>>},
        addReducesTo : NonEmptyLinks, removeReducesTo : {{}}]
  \cup [status : STATUSES \cup {NoChange}, addTag : {<<>>}, removeTag : {<<>>},
        addReducesTo : {<<>>}, removeReducesTo : RemovableLinks]
  \cup [status : {NoChange}, addTag : {<<>>}, removeTag : {<<>>},
        addReducesTo : {<<s>> : s \in Slugs},
        removeReducesTo : {{s} : s \in Slugs}]
  \cup {[status |-> NoChange, addTag |-> <<"vibes">>, removeTag |-> <<>>,
         addReducesTo |-> <<>>, removeReducesTo |-> {}]}

\* the options an invocation of dedup merge can carry
MergeRequests ==
  [level : LEVELS, groupId : {0}, oldNodeSlugs : SeqsUpTo(Slugs, MaxLinks),
   dryRun : {FALSE}]
  \cup [level : LEVELS, groupId : {0}, oldNodeSlugs : {<<s>> : s \in Slugs},
        dryRun : {TRUE}]
  \cup {[level |-> "galaxy", groupId |-> 0, oldNodeSlugs |-> <<>>, dryRun |-> FALSE],
        [level |-> "percept", groupId |-> 1, oldNodeSlugs |-> <<>>, dryRun |-> FALSE]}

\* the nodes older than 14 days when a scan runs: none of them, or all
AgedSets == {{}, Slugs}

\* the second in which an add runs: the one of the latest file, or the next
NewSlugs == {s \in Slugs : s = clock \/ s = clock + 1}

\* -------------------------------------------------- invocations in flight
\* Every command is a process of its own: it loads the node files, checks its
\* request against what it loaded, and then writes.  `disk` holds the level
\* folders as such processes find them, a file under its folder and name;
\* `calls` holds, for each process, the command it runs, what it loaded and
\* how it ended.  One command at a time never leaves two files of one name,
\* so the commands run one at a time are followed in `vault`, by slug alone.
Procs == 1..MaxCalls

NoRequest ==
  [level |-> "none", status |-> TENTATIVE, proposition |-> "",
   reduces_to |-> <<>>, tags |-> <<>>]

NoCall ==
  [pc |-> "idle", op |-> "none", slug |-> 0, req |-> NoRequest,
   snapshot |-> EmptyMap, result |-> "none", overlapped |-> FALSE]

\* the files of one level folder, by slug
Folder(files, level) ==
  [s \in {p[2] : p \in {x \in DOMAIN files : x[1] = level}} |-> files[<<level, s>>]]

\* loadAllNodes reads the folders in the order of LEVELS and keys each file
\* that parses by its slug, so of two files of one name the later read stays
ReadFolders(files) ==
  [s \in {p[2] : p \in DOMAIN files} |->
     LET held == {l \in LEVELS : <<l, s>> \in DOMAIN files}
         parsed == {l \in held : Parses(files[<<l, s>>])}
         from == IF parsed = {} THEN held ELSE parsed
         folder == CHOOSE l \in from : \A m \in from : LevelIndex(m) <= LevelIndex(l)
     IN files[<<folder, s>>]]

\* what a process checks its request against when it reads the folders
\* again just before writing
SeenAtWrite(call, files) == ReadFolders(files)

\* what a process checks its request against: the files it loaded
Seen(call, files) == call.snapshot

\* add in a process of its own: the checks against what it loaded, then the
\* exclusive create in the folder of the level
AddCallOutcome(files, master, call) ==
  LET seen == Seen(call, files)
      checked == AddOutcome(seen, master, call.slug, call.req)
  IN IF checked.result # "ok" THEN [result |-> checked.result, files |-> files]
     ELSE IF <<call.req.level, call.slug>> \in DOMAIN files
          THEN [result |-> "DuplicateSlug", files |-> files]
     ELSE [result |-> "ok",
           files |-> Put(files, <<call.req.level, call.slug>>, checked.files[call.slug])]

\* delete in a process of its own: the checks against what it loaded, then
\* unlink of the path the node was read from, which throws when the file is
\* no longer there
DeleteCallOutcome(files, call) ==
  LET seen == Seen(call, files)
      checked == DeleteOutcome(seen, call.slug)
  IN IF checked.result # "ok" THEN [result |-> checked.result, files |-> files]
     ELSE IF <<seen[call.slug].level, call.slug>> \notin DOMAIN files
          THEN [result |-> "Crash", files |-> files]
     ELSE [result |-> "ok", files |-> Drop(files, <<seen[call.slug].level, call.slug>>)]

CallOutcome(files, master, call) ==
  IF call.op = "add" THEN AddCallOutcome(files, master, call)
  ELSE DeleteCallOutcome(files, call)

\* ------------------------------------------------------------------ actions
Init ==
  /\ vault = EmptyMap
  /\ trash = EmptyMap
  /\ masterTags = DEFAULT_TAGS
  /\ clock = 0
  /\ last = [op |-> "init", result |-> "ok"]
  /\ disk = EmptyMap
  /\ calls = [p \in Procs |-> NoCall]

\* the model follows a vault while no reduces_to list exceeds MaxRefs entries
Fits(files) == \A s \in DOMAIN files : Len(files[s].reduces_to) <= MaxRefs

\* last names the latest invocation that changed the store
Wrote(op, result, changed) ==
  IF changed THEN [op |-> op, result |-> result] ELSE last

Add(newSlug, req) ==
  \E out \in {AddOutcome(vault, masterTags, newSlug, req)} :
     /\ Fits(out.files)
     /\ vault' = out.files
     /\ clock' = IF out.result = "ok" THEN newSlug ELSE clock
     /\ last' = Wrote("add", out.result, out.files # vault)
     /\ UNCHANGED <<trash, masterTags, disk, calls>>

Update(query, req) ==
  \E out \in {UpdateOutcome(vault, masterTags, query, req)} :
     /\ Fits(out.files)
     /\ vault' = out.files
     /\ last' = Wrote("update", out.result, out.files # vault)
     /\ UNCHANGED <<trash, masterTags, clock, disk, calls>>

Delete(query) ==
  \E out \in {DeleteOutcome(vault, query)} :
     /\ Fits(out.files)
     /\ vault' = out.files
     /\ last' = Wrote("delete", out.result, out.files # vault)
     /\ UNCHANGED <<trash, masterTags, clock, disk, calls>>

Merge(newSlug, req, aged) ==
  \E out \in {MergeOutcome(vault, trash, masterTags, newSlug, req, aged)} :
     /\ Fits(out.files)
     /\ vault' = out.files
     /\ trash' = out.trash
     /\ clock' = IF out.files # vault THEN newSlug ELSE clock
     /\ last' = Wrote("merge", out.result, out.files # vault)
     /\ UNCHANGED <<masterTags, disk, calls>>

Undo(canonicalSlug, dryRun, aged) ==
  \E out \in {UndoOutcome(vault, trash, masterTags, canonicalSlug, dryRun, aged)} :
     /\ Fits(out.files)
     /\ vault' = out.files
     /\ trash' = out.trash
     /\ last' = Wrote("undo", out.result, out.files # vault)
     /\ UNCHANGED <<masterTags, clock, disk, calls>>

\* the status values a file can hold: the two statuses, and one that is not
\* a status
StoredStatuses == STATUSES \cup {"Draft"}

\* the status line of a bedrock node's file rewritten in an editor
EditStatus(slug, value) ==
  /\ slug \in DOMAIN vault
  /\ IsBedrock(vault[slug].level)
  /\ vault' = Put(vault, slug, [vault[slug] EXCEPT !.status = value])
  /\ last' = Wrote("edit", "ok", vault[slug].status # value)
  /\ UNCHANGED <<trash, masterTags, clock, disk, calls>>

\* the node files an editor can leave in a level folder: any links, to slugs
\* that exist or not, upward, downward or in a circle
HandLevels == {"axiom", "principle", "application"}
HandLinks == {r \in SeqsUpTo(Slugs, MaxLinks) : \A i \in 1..(Len(r) - 1) : r[i] < r[i + 1]}
HandFiles == {NodeFile(l, s, r, <<>>) : l \in HandLevels, s \in STATUSES, r \in HandLinks}

\* a node file written or rewritten by hand
HandWrite(slug, file) ==
  /\ vault' = Put(vault, slug, file)
  /\ clock' = IF slug > clock THEN slug ELSE clock
  /\ UNCHANGED <<trash, masterTags, last, disk, calls>>

AddStep == \E s \in NewSlugs, req \in AddRequests : Add(s, req)
UpdateStep == \E q \in Slugs, req \in UpdateRequests : Update(q, req)
DeleteStep == \E q \in Slugs : Delete(q)
MergeStep == \E s \in NewSlugs, req \in MergeRequests, aged \in AgedSets : Merge(s, req, aged)
UndoStep == \E c \in Slugs, dryRun \in BOOLEAN, aged \in AgedSets : Undo(c, dryRun, aged)

EditStep == \E s \in Slugs, value \in StoredStatuses : EditStatus(s, value)

Next == AddStep \/ UpdateStep \/ DeleteStep \/ MergeStep \/ UndoStep

Spec == Init /\ [][Next]_vars

\* the vault under add, update and delete alone
NextEdit == AddStep \/ UpdateStep \/ DeleteStep

SpecEdit == Init /\ [][NextEdit]_vars

\* the vault under add, update, merge and undo: no file is ever deleted
NextNoDelete == AddStep \/ UpdateStep \/ MergeStep \/ UndoStep

SpecNoDelete == Init /\ [][NextNoDelete]_vars

\* the vault under add and update, with status lines also edited by hand
NextStored == AddStep \/ UpdateStep \/ EditStep

SpecStored == Init /\ [][NextStored]_vars

\* the second in which a merge runs.  The canonical node may be one node more
\* than add is followed for, so that a merge of two members that a third node
\* reduces to is within the model
CanonicalSlugs == {s \in 1..(MaxNodes + 1) : s = clock \/ s = clock + 1}

MergeAnyStep ==
  \E s \in CanonicalSlugs, req \in MergeRequests, aged \in AgedSets : Merge(s, req, aged)
UndoAnyStep ==
  \E c \in 1..(MaxNodes + 1), dryRun \in BOOLEAN, aged \in AgedSets : Undo(c, dryRun, aged)

\* the vault under add, merge and undo
NextMerge == AddStep \/ MergeAnyStep \/ UndoAnyStep

SpecMerge == Init /\ [][NextMerge]_vars

MergeKilled(newSlug, req) ==
  \E out \in {MergeKilledOutcome(vault, trash, masterTags, newSlug, req)} :
     /\ Fits(out.files)
     /\ vault' = out.files
     /\ clock' = IF out.files # vault THEN newSlug ELSE clock
     /\ last' = Wrote("merge", out.result, out.files # vault)
     /\ UNCHANGED <<trash, masterTags, disk, calls>>

MergeKilledStep == \E s \in CanonicalSlugs, req \in MergeRequests : MergeKilled(s, req)

\* the vault under add and merges that are stopped half-way
NextMergeKilled == AddStep \/ MergeKilledStep

SpecMergeKilled == Init /\ [][NextMergeKilled]_vars

MergeInterrupted(newSlug, req, point) ==
  \E out \in {MergeInterruptedOutcome(vault, trash, masterTags, newSlug, req, point)} :
     /\ Fits(out.files)
     /\ vault' = out.files
     /\ trash' = out.trash
     /\ clock' = IF out.files # vault THEN newSlug ELSE clock
     /\ last' = Wrote("merge", out.result, out.files # vault)
     /\ UNCHANGED <<masterTags, disk, calls>>

\* the vault under add, delete and merges that are stopped after a move
NextInterrupted ==
  \/ AddStep
  \/ DeleteStep
  \/ \E s \in CanonicalSlugs, req \in MergeRequests :
       \E point \in KillPoints(req, LoadAllNodes(vault)) : MergeInterrupted(s, req, point)

SpecInterrupted == Init /\ [][NextInterrupted]_vars

TagsAdd(tag, reason) ==
  \E out \in {TagsAddOutcome(masterTags, vault, tag, reason)} :
     /\ masterTags' = out.master
     /\ UNCHANGED <<vault, trash, clock, last, disk, calls>>

TagsRemove(tag) ==
  \E out \in {TagsRemoveOutcome(masterTags, vault, tag)} :
     /\ masterTags' = out.master
     /\ UNCHANGED <<vault, trash, clock, last, disk, calls>>

\* the vault and its tag list under add, update, tags add, tags remove, merge
\* and undo: add and update with and without a tag, merges of one old node,
\* and the tag commands for a tag of the default list, typed with a capital,
\* and for one that is not in it
NextTags ==
  \/ \E s \in NewSlugs :
       \E req \in [level : {"percept", "principle"}, status : {VALIDATED},
                   proposition : {"p"}, reduces_to : {<<>>, <<1>>},
                   tags : {<<>>, <<"health">>, <<"vibes">>}] : Add(s, req)
  \/ \E q \in Slugs :
       \E req \in [status : {NoChange}, addTag : {<<>>, <<"vibes">>},
                   removeTag : {<<>>, <<"health">>}, addReducesTo : {<<>>},
                   removeReducesTo : {{}}] : Update(q, req)
  \/ \E s \in CanonicalSlugs :
       \E req \in [level : {"percept", "principle"}, groupId : {0},
                   oldNodeSlugs : {<<m>> : m \in Slugs}, dryRun : {FALSE}] :
          Merge(s, req, {})
  \/ \E c \in 1..(MaxNodes + 1) : Undo(c, FALSE, {})
  \/ \E tag \in {"Health", "vibes"}, reason \in Slugs : TagsAdd(tag, reason)
  \/ \E tag \in {"Health", "vibes"} : TagsRemove(tag)

SpecTags == Init /\ [][NextTags]_vars

\* the nodes older than 14 days when validate runs: those created up to some
\* second
ScanAges == {{s \in Slugs : s <= k} : k \in 0..MaxNodes}

Validate(fixAuto, dryRun, aged) ==
  \E out \in {ValidateOutcome(vault, masterTags, fixAuto, dryRun, aged)} :
     /\ vault' = out.files
     /\ last' = Wrote("validate", out.result, out.files # vault)
     /\ UNCHANGED <<trash, masterTags, clock, disk, calls>>

ValidateStep ==
  \E fixAuto \in BOOLEAN, dryRun \in BOOLEAN, aged \in ScanAges :
     Validate(fixAuto, dryRun, aged)

\* the vault under add, update and validate
NextValidate == AddStep \/ UpdateStep \/ ValidateStep

SpecValidate == Init /\ [][NextValidate]_vars

\* the files given to the integrity scan: the hand-written files, and files
\* with tags inside and outside the master list and with a target listed twice
ScanFiles ==
  HandFiles
  \cup {NodeFile("percept", VALIDATED, <<>>, <<"health", "vibes">>),
        NodeFile("principle", TENTATIVE, <<1, 1>>, <<"vibes", "vibes">>),
        NodeFile("application", VALIDATED, <<3, 3>>, <<>>),
        NodeFile("principle", VALIDATED, <<2, 1>>, <<"health">>)}

ScanWriteStep == \E s \in Slugs, file \in ScanFiles : HandWrite(s, file)

\* any vault of such files
SpecScan == Init /\ [][ScanWriteStep]_vars

\* any vault of hand-written files: the graphs the graph functions are given
HandWriteStep == \E s \in Slugs, file \in HandFiles : HandWrite(s, file)

SpecGraph == Init /\ [][HandWriteStep]_vars

\* the node files the connectivity search is run on: written by hand or by
\* the commands, with and without a tag
RelatedFiles ==
  {NodeFile(l, s, r, t) : l \in HandLevels, s \in STATUSES,
                          r \in {<<>>, <<1>>, <<1, 2>>}, t \in {<<>>, <<"health">>}}

RelatedWriteStep == \E s \in Slugs, file \in RelatedFiles : HandWrite(s, file)

SpecRelated == Init /\ [][RelatedWriteStep]_vars

\* the files a level folder can hold when some were written by hand: files
\* that parse, and files without frontmatter, with a level that is none of
\* the four, or with a status that is none of the two
LoadFiles ==
  {NodeFile(l, s, r, <<>>) : l \in LEVELS \cup {"galaxy"}, s \in StoredStatuses,
                             r \in {<<>>, <<1>>}}
  \cup {NoFrontmatter}

LoadWriteStep == \E s \in Slugs, file \in LoadFiles : HandWrite(s, file)

SpecLoad == Init /\ [][LoadWriteStep]_vars

\* the add requests made by concurrent processes
CallRequests ==
  {r \in AddRequests : r.status = TENTATIVE /\ r.level \in {"axiom", "principle"}
                       /\ r.proposition = "p" /\ r.tags = <<>>
                       /\ r.reduces_to \in {<<>>, <<1>>}}

\* a process starts a command and loads the node files
Start(p, op, slug, req) ==
  /\ calls[p].pc = "idle"
  /\ calls' = [q \in Procs |->
                 IF q = p
                 THEN [pc |-> "loaded", op |-> op, slug |-> slug, req |-> req,
                       snapshot |-> ReadFolders(disk), result |-> "none",
                       overlapped |-> \E o \in Procs \ {p} : calls[o].pc = "loaded"]
                 ELSE IF calls[q].pc = "loaded"
                      THEN [calls[q] EXCEPT !.overlapped = TRUE]
                      ELSE calls[q]]
  /\ UNCHANGED <<vault, trash, masterTags, clock, last, disk>>

\* a process checks its request against what it loaded, writes and ends
Finish(p) ==
  /\ calls[p].pc = "loaded"
  /\ \E out \in {CallOutcome(disk, masterTags, calls[p])} :
       /\ disk' = out.files
       /\ calls' = [calls EXCEPT ![p].pc = "idle", ![p].result = out.result,
                                 ![p].snapshot = EmptyMap]
       /\ clock' = IF calls[p].op = "add" /\ out.result = "ok" /\ calls[p].slug > clock
                   THEN calls[p].slug ELSE clock
  /\ UNCHANGED <<vault, trash, masterTags, last>>

StartAddStep == \E p \in Procs, s \in NewSlugs, req \in CallRequests : Start(p, "add", s, req)
StartDeleteStep == \E p \in Procs, q \in Slugs : Start(p, "delete", q, NoRequest)
FinishStep == \E p \in Procs : Finish(p)

NextConcurrent == StartAddStep \/ StartDeleteStep \/ FinishStep

SpecConcurrent == Init /\ [][NextConcurrent]_vars

\* the group ids generateGroupId is followed for
MaxGroups == 2
GroupIds == 1..MaxGroups

GroupCreate(nodeSlugs, groupId, dryRun) ==
  \E out \in {GroupCreateOutcome(vault, nodeSlugs, groupId, dryRun)} :
     /\ vault' = out.files
     /\ last' = Wrote("group create", out.result, out.files # vault)
     /\ UNCHANGED <<trash, masterTags, clock, disk, calls>>

\* the vault under add and group create
NextGroup ==
  \/ AddStep
  \/ \E nodeSlugs \in SeqsUpTo(Slugs, MaxLinks), groupId \in GroupIds, dryRun \in BOOLEAN :
       GroupCreate(nodeSlugs, groupId, dryRun)

SpecGroup == Init /\ [][NextGroup]_vars

\* ------------------------------------------------------- what is checked
\* the graph every command works on
Loaded == LoadAllNodes(vault)

\* the edges between loaded nodes: n lists p, and p is in the vault
Edges(nodes) ==
  {e \in (DOMAIN nodes) \X (DOMAIN nodes) : Includes(nodes[e[1]].reduces_to, e[2])}

\* C1: in every state reached through add, update, merge and undo, every edge
\* N -> P whose target is in the vault has rank(N) > rank(P)
C1_RankOrder ==
  \A e \in Edges(Loaded) :
     LEVEL_RANK(Loaded[e[1]].level) > LEVEL_RANK(Loaded[e[2]].level)

\* C2: every axiom or percept file loads, with an empty reduces_to and with
\* status Validated, whatever status its file holds
C2_BedrockLoadsValidated ==
  \A s \in DOMAIN vault :
     IsBedrock(vault[s].level) =>
       /\ s \in DOMAIN Loaded
       /\ Loaded[s].reduces_to = <<>>
       /\ Loaded[s].status = VALIDATED

\* an update went through in a vault that holds a bedrock file marked
\* Tentative and a bedrock file whose status is not a status
C2_Witness ==
  /\ last.op = "update"
  /\ \E s, t \in DOMAIN vault :
        /\ IsBedrock(vault[s].level) /\ vault[s].status = TENTATIVE
        /\ IsBedrock(vault[t].level) /\ vault[t].status \notin STATUSES

\* an update that carries --status and nothing else
StatusOnly(status) ==
  [status |-> status, addTag |-> <<>>, removeTag |-> <<>>,
   addReducesTo |-> <<>>, removeReducesTo |-> {}]

\* the loaded direct parents of a node that are Tentative
TentativeParents(reducesTo, nodes) ==
  {p \in Range(reducesTo) \cap DOMAIN nodes : nodes[p].status = TENTATIVE}

\* C3: an update that sets a principle or an application to Validated fails
\* with UnvalidatedParent, leaving the vault as it was, exactly when a direct
\* parent of the node is Tentative, and succeeds otherwise
C3_PromotionNeedsValidatedParents ==
  \A q \in DOMAIN Loaded :
     ~IsBedrock(Loaded[q].level) =>
       LET out == UpdateOutcome(vault, masterTags, q, StatusOnly(VALIDATED))
       IN IF TentativeParents(Loaded[q].reduces_to, Loaded) # {}
          THEN out.result = "UnvalidatedParent" /\ out.files = vault
          ELSE out.result = "ok"

\* the loaded nodes other than slug that list slug
OtherSources(slug, nodes) ==
  {n \in DOMAIN nodes \ {slug} : Includes(nodes[n].reduces_to, slug)}

SomeLinkFails(sourceSlug, sourceLevel, reducesTo, nodes) ==
  \E i \in 1..Len(reducesTo) :
     ValidateLink(sourceSlug, sourceLevel, reducesTo[i], nodes)
       \in {"TargetNotFound", "LevelMismatch", "CycleDetected"}

\* the requests that name several targets
SeveralTargetAdds == {req \in AddRequests : Len(req.reduces_to) >= 2}
SeveralTargetUpdates == {req \in UpdateRequests : Len(req.addReducesTo) >= 2}

\* C7: an add or an update --add-reduces-to that names several targets, one
\* of which fails validation, fails and leaves every file as it was
C7_NoPartialLinks ==
  /\ \A s \in NewSlugs, req \in SeveralTargetAdds :
        (req.level \in LEVELS
         /\ SomeLinkFails(s, req.level, req.reduces_to, Loaded))
        => LET out == AddOutcome(vault, masterTags, s, req)
           IN out.result # "ok" /\ out.files = vault
  /\ \A q \in DOMAIN Loaded, req \in SeveralTargetUpdates :
        SomeLinkFails(q, Loaded[q].level, req.addReducesTo, Loaded)
        => LET out == UpdateOutcome(vault, masterTags, q, req)
           IN out.result # "ok" /\ out.files = vault

\* an update names a first target that passes and a second that does not, and
\* an add does the same, in a vault that add and update have built
C7_Witness ==
  /\ last.op \in {"add", "update"}
  /\ \E q \in DOMAIN Loaded, req \in SeveralTargetUpdates :
        /\ ValidateLink(q, Loaded[q].level, req.addReducesTo[1], Loaded) = "ok"
        /\ ValidateLink(q, Loaded[q].level, req.addReducesTo[2], Loaded) # "ok"
        /\ req.addReducesTo[1] \notin Range(Loaded[q].reduces_to)
        /\ UpdateOutcome(vault, masterTags, q, req).result # "ok"
  /\ \E s \in NewSlugs, req \in SeveralTargetAdds :
        /\ req.level \in LEVELS /\ ~IsBedrock(req.level)
        /\ ValidateLink(s, req.level, req.reduces_to[1], Loaded) = "ok"
        /\ ValidateLink(s, req.level, req.reduces_to[2], Loaded) # "ok"
        /\ AddOutcome(vault, masterTags, s, req).result # "ok"

\* C8: an update that leaves a principle or an application with an empty
\* reduces_to leaves it with the stored status Tentative, whatever its flags
C8_NoLinksMeansTentative ==
  \A q \in DOMAIN Loaded, req \in UpdateRequests :
     LET out == UpdateOutcome(vault, masterTags, q, req)
     IN (out.result = "ok"
         /\ ~IsBedrock(Loaded[q].level)
         /\ out.files[q].reduces_to = <<>>)
        => out.files[q].status = TENTATIVE

\* C9: an update that carries --status and targets an axiom or a percept
\* fails and leaves the node's file as it was
C9_BedrockStatusNotSettable ==
  \A q \in DOMAIN Loaded, req \in UpdateRequests :
     (IsBedrock(Loaded[q].level) /\ req.status # NoChange)
     => LET out == UpdateOutcome(vault, masterTags, q, req)
        IN out.result # "ok" /\ out.files = vault

\* C10: an add of a principle or an application with status Validated that
\* names a Tentative node in reduces_to is rejected and creates no file
C10_AddNeedsValidatedParents ==
  \A s \in NewSlugs, req \in AddRequests :
     (/\ req.level \in {"principle", "application"}
      /\ req.status = VALIDATED
      /\ TentativeParents(req.reduces_to, Loaded) # {})
     => LET out == AddOutcome(vault, masterTags, s, req)
        IN out.result # "ok" /\ out.files = vault

\* one more step along reduces_to from the loaded nodes of S
Successors(S, nodes) ==
  S \cup UNION {Range(nodes[s].reduces_to) : s \in S \cap DOMAIN nodes}

RECURSIVE ReachableFrom(_, _)
\* the slugs reached from S in zero or more steps
ReachableFrom(S, nodes) ==
  IF Successors(S, nodes) = S THEN S ELSE ReachableFrom(Successors(S, nodes), nodes)

\* a is reached from b along existing edges; b reaches itself
Reaches(b, a, nodes) == a \in ReachableFrom({b}, nodes)

\* the proposal of the one edge to b: by update, and by add of a new node
LinkOnly(b) ==
  [status |-> NoChange, addTag |-> <<>>, removeTag |-> <<>>,
   addReducesTo |-> <<b>>, removeReducesTo |-> {}]

AddWithLink(level, b) ==
  [level |-> level, status |-> TENTATIVE, proposition |-> "p",
   reduces_to |-> <<b>>, tags |-> <<>>]

\* C4 as stated: validating a proposed edge A -> B, by update or by add, fails
\* with CycleDetected exactly when A is reached from B along existing edges,
\* A = B included
C4_CycleDetectedIffReachable ==
  /\ \A a \in DOMAIN Loaded, b \in Slugs :
        UpdateOutcome(vault, masterTags, a, LinkOnly(b)).result = "CycleDetected"
        <=> Reaches(b, a, Loaded)
  /\ \A s \in Slugs, level \in LEVELS, b \in Slugs :
        AddOutcome(vault, masterTags, s, AddWithLink(level, b)).result = "CycleDetected"
        <=> Reaches(b, s, Loaded)

\* C4 as amended: the cycle check itself answers yes exactly when A is
\* reached from B (A = B included); the validation of the edge fails with
\* CycleDetected exactly when, besides, B is in the vault and
\* rank(A) > rank(B), the two checks that run first
C4_CycleCheckAfterRankCheck ==
  /\ \A a, b \in Slugs : WouldCreateCycle(a, b, Loaded) <=> Reaches(b, a, Loaded)
  /\ \A a \in DOMAIN Loaded, b \in Slugs :
        UpdateOutcome(vault, masterTags, a, LinkOnly(b)).result = "CycleDetected"
        <=> /\ b \in DOMAIN Loaded
            /\ LEVEL_RANK(Loaded[a].level) > LEVEL_RANK(Loaded[b].level)
            /\ Reaches(b, a, Loaded)
  /\ \A s \in Slugs, level \in LEVELS, b \in Slugs :
        AddOutcome(vault, masterTags, s, AddWithLink(level, b)).result = "CycleDetected"
        <=> /\ b \in DOMAIN Loaded
            /\ LEVEL_RANK(level) > LEVEL_RANK(Loaded[b].level)
            /\ Reaches(b, s, Loaded)

\* an update proposes an edge to a node of lower rank that reaches the source
\* through a third node, and fails with CycleDetected
C4_Witness ==
  \E a, b \in DOMAIN Loaded :
     /\ a # b
     /\ ~Includes(Loaded[b].reduces_to, a)
     /\ UpdateOutcome(vault, masterTags, a, LinkOnly(b)).result = "CycleDetected"

\* the Tentative nodes reached from slug in one or more steps
TentativeBelow(slug, nodes) ==
  {w \in ReachableFrom(Range(nodes[slug].reduces_to), nodes) \cap DOMAIN nodes :
     nodes[w].status = TENTATIVE}

\* C6: in any graph, dangling links and cycles included, findHollowChains
\* returns exactly the Validated principles and applications from which a
\* Tentative node is reached in one or more steps, each with exactly those
\* Tentative nodes as its weak links, each listed once
C6_HollowChains ==
  LET hollow == FindHollowChains(Loaded)
  IN /\ DOMAIN hollow = {x \in DOMAIN Loaded :
                            /\ Loaded[x].status = VALIDATED
                            /\ ~IsBedrock(Loaded[x].level)
                            /\ TentativeBelow(x, Loaded) # {}}
     /\ \A x \in DOMAIN hollow :
           /\ Range(hollow[x]) = TentativeBelow(x, Loaded)
           /\ Len(hollow[x]) = Cardinality(TentativeBelow(x, Loaded))

\* a graph with a cycle in which a hollow node has a weak link two steps
\* away, behind its one direct parent
C6_Witness ==
  /\ \E n \in DOMAIN Loaded :
        n \in ReachableFrom(Range(Loaded[n].reduces_to), Loaded)
  /\ \E x \in DOMAIN FindHollowChains(Loaded), p, w \in DOMAIN Loaded :
        /\ Loaded[x].reduces_to = <<p>>
        /\ Loaded[p].reduces_to = <<w>>
        /\ w \notin {x, p}
        /\ Loaded[w].status = TENTATIVE
        /\ Includes(FindHollowChains(Loaded)[x], w)

\* the pairs of loaded bedrock nodes of different levels: an axiom and a
\* percept, either way round
CrossBedrockPairs(nodes) ==
  {e \in (DOMAIN nodes) \X (DOMAIN nodes) :
     /\ IsBedrock(nodes[e[1]].level)
     /\ IsBedrock(nodes[e[2]].level)
     /\ nodes[e[1]].level # nodes[e[2]].level}

\* C11 as stated: an edge between the two bedrock levels is rejected with
\* LevelMismatch by update --add-reduces-to and by add alike
C11_CrossBedrockLevelMismatch ==
  /\ \A e \in CrossBedrockPairs(Loaded) :
        UpdateOutcome(vault, masterTags, e[1], LinkOnly(e[2])).result = "LevelMismatch"
  /\ \A s \in NewSlugs, l \in {"axiom", "percept"}, b \in DOMAIN Loaded :
        IsBedrock(Loaded[b].level) /\ Loaded[b].level # l
        => AddOutcome(vault, masterTags, s, AddWithLink(l, b)).result = "LevelMismatch"

\* C11 as the code has it: update --add-reduces-to rejects the edge with
\* LevelMismatch; add rejects it, as it rejects every link of a new bedrock
\* node, with its bad-input error before any edge is validated; neither
\* writes anything
C11_CrossBedrockRejected ==
  /\ \A e \in CrossBedrockPairs(Loaded) :
        UpdateOutcome(vault, masterTags, e[1], LinkOnly(e[2]))
          = Fail("LevelMismatch", vault)
  /\ \A s \in NewSlugs, l \in {"axiom", "percept"}, b \in DOMAIN Loaded :
        IsBedrock(Loaded[b].level) /\ Loaded[b].level # l
        => AddOutcome(vault, masterTags, s, AddWithLink(l, b))
             = Fail("BedrockReducesTo", vault)

\* an axiom and a percept are in the vault and a further node can be added
C11_Witness ==
  /\ CrossBedrockPairs(Loaded) # {}
  /\ NewSlugs # {}
  /\ \E e \in CrossBedrockPairs(Loaded) :
        /\ Loaded[e[1]].level = "axiom"
        /\ UpdateOutcome(vault, masterTags, e[1], LinkOnly(e[2])).result = "LevelMismatch"

\* the loaded principles and applications
NonBedrock(nodes) == {s \in DOMAIN nodes : ~IsBedrock(nodes[s].level)}

\* C12 as stated: update R2 --add-reduces-to R2 on an existing non-bedrock
\* node fails with CycleDetected and leaves R2 unchanged
C12_SelfEdgeCycleDetected ==
  \A q \in NonBedrock(Loaded) :
     UpdateOutcome(vault, masterTags, q, LinkOnly(q)) = Fail("CycleDetected", vault)

\* C12 as the code has it: the self edge fails with LevelMismatch, since the
\* rank check runs before the cycle check and a node's rank is not above its
\* own; the vault is unchanged
C12_SelfEdgeLevelMismatch ==
  \A q \in NonBedrock(Loaded) :
     UpdateOutcome(vault, masterTags, q, LinkOnly(q)) = Fail("LevelMismatch", vault)

\* a Validated principle or application with a link, offered itself as a
\* further link
C12_Witness ==
  \E q \in NonBedrock(Loaded) :
     /\ Loaded[q].status = VALIDATED
     /\ Loaded[q].reduces_to # <<>>
     /\ ~Includes(Loaded[q].reduces_to, q)
     /\ UpdateOutcome(vault, masterTags, q, LinkOnly(q)).result = "LevelMismatch"

\* the Validated principles and applications that have r among their
\* ancestors
ValidatedAbove(r, nodes) ==
  {x \in NonBedrock(nodes) :
     /\ nodes[x].status = VALIDATED
     /\ r \in ReachableFrom(Range(nodes[x].reduces_to), nodes)}

\* C13: update --status Tentative on a Validated principle or application R
\* succeeds whatever reduces to R, rewrites the status of R and nothing else,
\* and in the vault it leaves findHollowChains returns every Validated
\* non-bedrock node that has R among its ancestors, with R among its weak
\* links; of these, the ones whose ancestors were all Validated were not
\* returned before
C13_DemotionExposesHollowChains ==
  \A r \in NonBedrock(Loaded) :
     Loaded[r].status = VALIDATED =>
       LET out == UpdateOutcome(vault, masterTags, r, StatusOnly(TENTATIVE))
           after == LoadAllNodes(out.files)
           hollow == FindHollowChains(after)
       IN /\ out.result = "ok"
          /\ out.files = Put(vault, r, [vault[r] EXCEPT !.status = TENTATIVE])
          /\ \A x \in ValidatedAbove(r, after) :
                /\ x \in DOMAIN hollow
                /\ Includes(hollow[x], r)
                /\ TentativeBelow(x, Loaded) = {}
                   => x \notin DOMAIN FindHollowChains(Loaded)

\* a Validated node R with one Validated node reducing to it directly and
\* another through that one, none of them hollow, and both hollow with R as
\* weak link once R is demoted
C13_Witness ==
  \E r \in NonBedrock(Loaded), x, y \in NonBedrock(Loaded) :
     /\ Loaded[r].status = VALIDATED
     /\ Loaded[x].reduces_to = <<r>>
     /\ Loaded[y].reduces_to = <<x>>
     /\ Cardinality({r, x, y}) = 3
     /\ FindHollowChains(Loaded) = EmptyMap
     /\ LET out == UpdateOutcome(vault, masterTags, r, StatusOnly(TENTATIVE))
            hollow == FindHollowChains(LoadAllNodes(out.files))
        IN /\ out.result = "ok"
           /\ DOMAIN hollow = {x, y}
           /\ hollow[y] = <<r>>

\* the merges that can be run in the current vault: every request, in the
\* second of the latest file or the next, with no node or every node older
\* than 14 days
MergeRuns == CanonicalSlugs \X MergeRequests \X AgedSets

MergeOf(run) == MergeOutcome(vault, trash, masterTags, run[1], run[2], run[3])

\* the merge wrote its canonical node
CreatedCanonical(run) ==
  run[1] \notin DOMAIN vault /\ run[1] \in DOMAIN MergeOf(run).files

\* C16: whenever merge creates its canonical node, the node's file has
\* status Tentative, whatever the statuses of the old nodes, and its
\* reduces_to is the reduces_to that the first old node of the merge list had
\* when the merge started
C16_CanonicalTentativeWithFirstLinks ==
  \A run \in MergeRuns :
     CreatedCanonical(run) =>
       LET canonical == MergeOf(run).files[run[1]]
       IN /\ canonical.status = TENTATIVE
          /\ canonical.reduces_to = Loaded[run[2].oldNodeSlugs[1]].reduces_to

\* a successful merge of two Validated principles with different links: the
\* canonical node is Tentative with the links of the first
C16_Witness ==
  \E run \in MergeRuns :
     /\ MergeOf(run).result = "ok"
     /\ Len(run[2].oldNodeSlugs) = 2
     /\ LET a == run[2].oldNodeSlugs[1]
            b == run[2].oldNodeSlugs[2]
        IN /\ Loaded[a].level = "principle"
           /\ Loaded[a].status = VALIDATED
           /\ Loaded[b].status = VALIDATED
           /\ Loaded[a].reduces_to # Loaded[b].reduces_to
           /\ MergeOf(run).files[run[1]].reduces_to = Loaded[a].reduces_to

\* the named old nodes of a request that are loaded
NamedLoaded(req) == {s \in Range(req.oldNodeSlugs) : s \in DOMAIN Loaded}

\* C17: a merge that names a node that does not exist, or an old node whose
\* level is not the requested one, or an old node that has already been
\* merged, fails and leaves every file where and as it was: no canonical
\* node, no file moved, no reference rewritten; so does merge --dry-run,
\* whatever it is asked
C17_RejectedBeforeMutation ==
  \A run \in MergeRuns : \A out \in {MergeOf(run)} :
     LET req == run[2]
         missing == Range(req.oldNodeSlugs) # NamedLoaded(req)
         otherLevel == \E s \in NamedLoaded(req) : Loaded[s].level # req.level
         merged == \E s \in NamedLoaded(req) : Loaded[s].merged_into # 0
     IN /\ missing \/ otherLevel \/ merged
           => /\ out.result \notin {"ok", "dryrun", "ValidationFailed"}
              /\ out.files = vault
              /\ out.trash = trash
        /\ req.dryRun
           => /\ out.result # "ok"
              /\ out.files = vault
              /\ out.trash = trash

\* a merge of two nodes of which the second is at another level, a merge that
\* names a live node marked as merged, and a dry run of a merge that would
\* succeed: none changes the vault
C17_Witness ==
  /\ \E run \in MergeRuns :
        /\ Len(run[2].oldNodeSlugs) = 2
        /\ Range(run[2].oldNodeSlugs) \subseteq DOMAIN Loaded
        /\ Loaded[run[2].oldNodeSlugs[1]].level = run[2].level
        /\ Loaded[run[2].oldNodeSlugs[2]].level # run[2].level
        /\ MergeOf(run).result = "MixedLevels"
  /\ \E run \in MergeRuns :
        /\ \E s \in NamedLoaded(run[2]) : Loaded[s].merged_into # 0
        /\ MergeOf(run).result = "AlreadyMerged"
  /\ \E run \in MergeRuns :
        /\ run[2].dryRun
        /\ MergeOf(run).result = "dryrun"
        /\ MergeOutcome(vault, trash, masterTags, run[1],
                        [run[2] EXCEPT !.dryRun = FALSE], run[3]).result = "ok"

\* C15: after a merge that succeeds no live node lists a merged member:
\* every node that stays has, entry by entry, the canonical slug where it
\* listed a member and what it listed elsewhere; the members are out of the
\* live graph and in the holding area; the live graph is the nodes that stay
\* and the canonical node
C15_MergeRepointsEdges ==
  \A run \in MergeRuns : \A out \in {MergeOf(run)} :
     out.result = "ok" =>
       LET members == Range(run[2].oldNodeSlugs)
           canonical == run[1]
       IN /\ \A s \in DOMAIN out.files :
                Range(out.files[s].reduces_to) \cap members = {}
          /\ DOMAIN out.files = (DOMAIN vault \ members) \cup {canonical}
          /\ members \subseteq DOMAIN out.trash
          /\ \A s \in DOMAIN vault \ members :
                /\ Len(out.files[s].reduces_to) = Len(vault[s].reduces_to)
                /\ \A i \in 1..Len(vault[s].reduces_to) :
                      out.files[s].reduces_to[i]
                        = IF vault[s].reduces_to[i] \in members THEN canonical
                          ELSE vault[s].reduces_to[i]

\* a successful merge of two nodes that a third node lists both: the third
\* node lists the canonical node twice afterwards
C15_Witness ==
  \E run \in MergeRuns, x \in DOMAIN vault :
     /\ MergeOf(run).result = "ok"
     /\ Len(run[2].oldNodeSlugs) = 2
     /\ run[2].oldNodeSlugs[1] # run[2].oldNodeSlugs[2]
     /\ vault[x].reduces_to = run[2].oldNodeSlugs
     /\ MergeOf(run).files[x].reduces_to = <<run[1], run[1]>>

\* the merges that get as far as the final scan: not a dry run, a free slug
\* for the canonical node, every old node named once, loaded, at the
\* requested level and not yet merged, and no old node listing another
ReachesScan(run) ==
  LET req == run[2]
      named == req.oldNodeSlugs
  IN /\ ~req.dryRun
     /\ req.groupId = 0
     /\ named # <<>>
     /\ Cardinality(Range(named)) = Len(named)
     /\ run[1] \notin DOMAIN vault
     /\ \A s \in Range(named) :
           /\ s \in DOMAIN Loaded
           /\ Loaded[s].level = req.level
           /\ Loaded[s].merged_into = 0
           /\ Range(Loaded[s].reduces_to) \cap Range(named) = {}

Earliest(S) == CHOOSE m \in S : \A n \in S : m <= n

\* C14: for every merge that succeeds, undo run next on the canonical node
\* leaves a live graph without the canonical node, in which every member is
\* back in its level folder with the status and the reduces_to it had before
\* the merge, and every other node has the reduces_to it had before the
\* merge but for the entries that named a member, which name the member
\* created first
C14_MergeThenUndo ==
  \A run \in MergeRuns : \A merged \in {MergeOf(run)} :
     merged.result = "ok" =>
       LET members == Range(run[2].oldNodeSlugs)
           canonical == run[1]
           undone == UndoOutcome(merged.files, merged.trash, masterTags,
                                 canonical, FALSE, run[3])
           after == LoadAllNodes(undone.files)
       IN /\ DOMAIN after = DOMAIN Loaded
          /\ canonical \notin DOMAIN undone.files
          /\ \A m \in members :
                /\ after[m].level = Loaded[m].level
                /\ after[m].status = Loaded[m].status
                /\ after[m].reduces_to = Loaded[m].reduces_to
          /\ \A s \in DOMAIN Loaded \ members :
                /\ Len(after[s].reduces_to) = Len(Loaded[s].reduces_to)
                /\ \A i \in 1..Len(Loaded[s].reduces_to) :
                      after[s].reduces_to[i]
                        = IF Loaded[s].reduces_to[i] \in members THEN Earliest(members)
                          ELSE Loaded[s].reduces_to[i]

\* a merge of two nodes, the later one named first, that a third node lists
\* both, followed by its undo: the third node lists the earlier member twice
C14_Witness ==
  \E run \in MergeRuns, x \in DOMAIN vault :
     /\ MergeOf(run).result = "ok"
     /\ Len(run[2].oldNodeSlugs) = 2
     /\ run[2].oldNodeSlugs[1] > run[2].oldNodeSlugs[2]
     /\ vault[x].reduces_to = run[2].oldNodeSlugs
     /\ LET undone == UndoOutcome(MergeOf(run).files, MergeOf(run).trash, masterTags,
                                  run[1], FALSE, run[3])
        IN /\ undone.result = "ok"
           /\ undone.files[x].reduces_to
                = <<run[2].oldNodeSlugs[2], run[2].oldNodeSlugs[2]>>

\* C19: validate --fix-auto deletes a node only if it is a principle or an
\* application, Tentative, without any reduces_to entry and older than 14
\* days, and leaves every other file as it is; so a Tentative node with a
\* link, a Validated node and a node of 14 days or less stay
C19_FixAutoDeletesOnlyStaleUnlinked ==
  \A aged \in ScanAges :
     \A out \in {ValidateOutcome(vault, masterTags, TRUE, FALSE, aged)} :
        /\ DOMAIN out.files \subseteq DOMAIN vault
        /\ \A s \in DOMAIN out.files : out.files[s] = vault[s]
        /\ \A s \in DOMAIN vault \ DOMAIN out.files :
              /\ ~IsBedrock(Loaded[s].level)
              /\ Loaded[s].status = TENTATIVE
              /\ Loaded[s].reduces_to = <<>>
              /\ s \in aged

\* a scan at which three nodes are older than 14 days: a percept, a Tentative
\* principle without links, which is deleted, and a Tentative principle with
\* a link, which stays
C19_Witness ==
  \E aged \in ScanAges, p, d, k \in DOMAIN Loaded :
     /\ {p, d, k} \subseteq aged
     /\ IsBedrock(Loaded[p].level)
     /\ Loaded[d].status = TENTATIVE /\ Loaded[d].reduces_to = <<>>
     /\ ~IsBedrock(Loaded[d].level)
     /\ Loaded[k].status = TENTATIVE /\ Loaded[k].reduces_to = <<p>>
     /\ DOMAIN ValidateOutcome(vault, masterTags, TRUE, FALSE, aged).files = {p, k}

\* C20: in every vault, at every scan time, validate --fix-auto --dry-run
\* leaves every file as it is, and the nodes it names as would-be-deleted are
\* the nodes that validate --fix-auto deletes from the same vault at the same
\* time
C20_DryRunNamesWhatFixAutoDeletes ==
  \A aged \in ScanAges :
     \A dry \in {ValidateOutcome(vault, masterTags, TRUE, TRUE, aged)},
        real \in {ValidateOutcome(vault, masterTags, TRUE, FALSE, aged)} :
        /\ dry.files = vault
        /\ dry.wouldDelete = DOMAIN vault \ DOMAIN real.files
        /\ dry.deletedCount = real.deletedCount

\* a scan at which the dry run names one node of three and the run proper
\* deletes it
C20_Witness ==
  \E aged \in ScanAges, d \in DOMAIN vault :
     /\ Cardinality(DOMAIN vault) = 3
     /\ ValidateOutcome(vault, masterTags, TRUE, TRUE, aged).wouldDelete = {d}
     /\ DOMAIN ValidateOutcome(vault, masterTags, TRUE, FALSE, aged).files
          = DOMAIN vault \ {d}

\* the master tag lists a scan is given: the default list, the list without
\* one of its tags, the empty list
MasterLists == {DEFAULT_TAGS, DEFAULT_TAGS \ {"health"}, {}}

\* the issues of one type that a scan reports for one node
IssuesOf(issues, slug, type) == {i \in issues : i.slug = slug /\ i.type = type}

\* how many entries of a list satisfy a test
HowMany(seq, Test(_)) == Cardinality({i \in 1..Len(seq) : Test(seq[i])})

\* C21: for every graph and master tag list the scan reports, for each node
\* N, one broken_link per reduces_to entry whose target is absent, one
\* level_mismatch per entry whose target exists and does not rank strictly
\* below N, a missing_reduction exactly when N is a principle or application
\* with no entry, one rogue_tag per tag outside the master list, and no
\* issue of these types on a slug that is not a node
C21_ScanReportsPerEntry ==
  \A master \in MasterLists, aged \in AgedSets :
     LET issues == ValidateGraph(Loaded, master, aged)
         Absent(t) == t \notin DOMAIN Loaded
         Rogue(t) == t \notin master
     IN /\ \A i \in issues : i.slug \in DOMAIN Loaded
        /\ \A n \in DOMAIN Loaded :
              LET NotBelow(t) ==
                    /\ t \in DOMAIN Loaded
                    /\ ~(LEVEL_RANK(Loaded[t].level) < LEVEL_RANK(Loaded[n].level))
              IN /\ Cardinality(IssuesOf(issues, n, "broken_link"))
                      = HowMany(Loaded[n].reduces_to, Absent)
                 /\ Cardinality(IssuesOf(issues, n, "level_mismatch"))
                      = HowMany(Loaded[n].reduces_to, NotBelow)
                 /\ Cardinality(IssuesOf(issues, n, "missing_reduction"))
                      = IF Loaded[n].level \in {"principle", "application"}
                           /\ Loaded[n].reduces_to = <<>>
                        THEN 1 ELSE 0
                 /\ Cardinality(IssuesOf(issues, n, "rogue_tag"))
                      = HowMany(Loaded[n].tags, Rogue)

\* a scan of a graph in which one node lists an absent target twice and
\* carries the same rogue tag twice, and another lists twice a node that does
\* not rank below it
C21_Witness ==
  LET issues == ValidateGraph(Loaded, DEFAULT_TAGS, {})
  IN \E n, m \in DOMAIN Loaded :
        /\ Cardinality(IssuesOf(issues, n, "broken_link")) = 2
        /\ Cardinality(IssuesOf(issues, n, "rogue_tag")) = 2
        /\ Cardinality(IssuesOf(issues, m, "level_mismatch")) = 2
        /\ IssuesOf(issues, m, "missing_reduction") = {}

\* the nodes that lie on a directed cycle of reduces_to entries
OnCycle(nodes) ==
  {n \in DOMAIN nodes : n \in ReachableFrom(Range(nodes[n].reduces_to), nodes)}

\* the nodes whose in-degree no consumption can bring to zero: the nodes on
\* a cycle and the nodes reached from one
BehindCycle(nodes) == ReachableFrom(OnCycle(nodes), nodes) \cap DOMAIN nodes

\* C22: the scan reports a cycle issue if and only if the reduces_to entries
\* between existing nodes form a directed cycle, and it reports one cycle
\* issue for each node whose in-degree is left above zero when the queue has
\* drained, which are the nodes on a cycle and the nodes reached from one
C22_CycleIssuesIffCycle ==
  LET issues == {i \in ValidateGraph(Loaded, masterTags, {}) : i.type = "cycle"}
  IN /\ issues # {} <=> OnCycle(Loaded) # {}
     /\ {i.slug : i \in issues} = BehindCycle(Loaded)
     /\ Cardinality(issues) = Cardinality(BehindCycle(Loaded))

\* a graph with a cycle of two nodes and a third node that lists one of them
\* and is not reported
C22_Witness ==
  \E a, b, c \in DOMAIN Loaded :
     /\ Cardinality({a, b, c}) = 3
     /\ Includes(Loaded[a].reduces_to, b)
     /\ Includes(Loaded[b].reduces_to, a)
     /\ Loaded[c].reduces_to = <<a>>
     /\ {i.slug : i \in {j \in ValidateGraph(Loaded, masterTags, {}) : j.type = "cycle"}}
          = {a, b}

RECURSIVE Subtrees(_)
\* a chain tree and every tree below it
Subtrees(tree) ==
  {tree} \cup UNION {Subtrees(tree.children[i]) : i \in 1..Len(tree.children)}

RECURSIVE TreeHeight(_)
\* the number of steps from the root to the deepest leaf
TreeHeight(tree) ==
  IF tree.children = <<>> THEN 0
  ELSE LET below == {TreeHeight(tree.children[i]) : i \in 1..Len(tree.children)}
       IN 1 + CHOOSE h \in below : \A g \in below : g <= h

\* the entries of a node at the given depth that walk turns into children:
\* all of them above the ceiling, at the ceiling only those already on the
\* path
Walked(reducesTo, path, depth) ==
  IF depth < MAX_DEPTH THEN reducesTo
  ELSE Filter(reducesTo, Range(reducesTo) \ path)

RECURSIVE ChainShape(_, _, _, _)
\* the tree is the walk from its root slug: a cycle leaf for a slug already
\* on the path, a broken leaf for a slug that is not loaded, otherwise the
\* node with one child per walked entry, in order
ChainShape(tree, path, depth, nodes) ==
  IF tree.slug \in path
  THEN tree.status = "cycle" /\ tree.children = <<>>
  ELSE IF tree.slug \notin DOMAIN nodes
       THEN tree.status = "unknown" /\ tree.children = <<>>
  ELSE LET entries == Walked(nodes[tree.slug].reduces_to, path \cup {tree.slug}, depth)
       IN /\ tree.level = nodes[tree.slug].level
          /\ tree.status = nodes[tree.slug].status
          /\ Len(tree.children) = Len(entries)
          /\ \A i \in 1..Len(entries) :
                /\ tree.children[i].slug = entries[i]
                /\ ChainShape(tree.children[i], path \cup {tree.slug}, depth + 1, nodes)

RECURSIVE Occurrences(_, _)
RECURSIVE OccurrencesIn(_, _)
\* how many times a slug appears in a chain tree as a node, cycle leaves and
\* broken leaves not counted
Occurrences(tree, y) ==
  (IF tree.slug = y /\ tree.status \notin {"cycle", "unknown", "null"} THEN 1 ELSE 0)
  + OccurrencesIn(tree.children, y)

OccurrencesIn(trees, y) ==
  IF trees = <<>> THEN 0
  ELSE Occurrences(Head(trees), y) + OccurrencesIn(Tail(trees), y)

RECURSIVE PathCount(_, _, _)
RECURSIVE PathCountVia(_, _, _)
\* the number of reduces_to paths from x to y in an acyclic graph, a path
\* being a sequence of entries
PathCount(x, y, nodes) ==
  IF x = y THEN 1
  ELSE IF x \notin DOMAIN nodes THEN 0
  ELSE PathCountVia(nodes[x].reduces_to, y, nodes)

PathCountVia(entries, y, nodes) ==
  IF entries = <<>> THEN 0
  ELSE PathCount(Head(entries), y, nodes) + PathCountVia(Tail(entries), y, nodes)

\* C24: in an acyclic graph, the tree of buildChain(X) shows every loaded
\* node Y other than X once for each reduces_to path from X to Y: a shared
\* ancestor reached through two paths appears twice, and a node that is not
\* an ancestor does not appear
C24_OncePerPath ==
  OnCycle(Loaded) = {} =>
    \A x \in DOMAIN Loaded :
      \A y \in DOMAIN Loaded \ {x} :
       Occurrences(BuildReductionChain(x, Loaded), y) = PathCount(x, y, Loaded)

\* X lists Y and a node that lists Y: Y appears twice in the tree of X
C24_Witness ==
  /\ OnCycle(Loaded) = {}
  /\ \E x, a, y \in DOMAIN Loaded :
        /\ Cardinality({x, a, y}) = 3
        /\ Range(Loaded[x].reduces_to) = {a, y}
        /\ Loaded[a].reduces_to = <<y>>
        /\ Occurrences(BuildReductionChain(x, Loaded), y) = 2

\* the queries put to the connectivity search, and its hop bounds
Queries ==
  {<<Stamp(1)>>, <<Stamp(2), Word("risk"), Word("health")>>, <<Word("risk")>>,
   <<Word("Health")>>, <<Word("health")>>, <<Word("risk"), Word("health")>>,
   <<Word("vibes")>>, <<Word("money")>>}

Depths == 1..MaxHops

\* n is linked to seed by a path of at most depth hops, each hop along a
\* reduces_to entry in either direction
ConnectedWithin(seed, n, depth, nodes) ==
  /\ n # seed
  /\ \E p \in SeqsUpTo(DOMAIN nodes, depth + 1) :
        /\ Len(p) >= 2
        /\ p[1] = seed
        /\ p[Len(p)] = n
        /\ \A i \in 1..(Len(p) - 1) :
              \/ Includes(nodes[p[i]].reduces_to, p[i + 1])
              \/ Includes(nodes[p[i + 1]].reduces_to, p[i])

SeedsReaching(seeds, n, depth, nodes) ==
  {seed \in seeds : ConnectedWithin(seed, n, depth, nodes)}

\* C25: in the connectivity search a node within the hop bound of two distinct
\* seeds is a result with reach_count >= 2, and its score is strictly higher
\* than the score of every result of the same min_distance, status and level
\* that only one seed reaches
C25_TwoSeedsScoreHigher ==
  \A q \in Queries :
    Cardinality(EntryPoints(q, Loaded).seeds) >= 2 =>
      \A depth \in Depths :
        \A out \in {RelatedOutcome(vault, q, depth)} :
          \A reach \in {[n \in DOMAIN Loaded |->
                           Cardinality(SeedsReaching(out.seeds, n, depth, Loaded))]} :
            \A n \in {m \in DOMAIN Loaded : reach[m] >= 2} :
              \E r \in out.results :
                /\ r.slug = n
                /\ r.reach_count >= 2
                /\ \A o \in out.results :
                     (/\ reach[o.slug] = 1
                      /\ o.min_distance = r.min_distance
                      /\ o.status = r.status
                      /\ o.level = r.level)
                     => r.score > o.score

\* two seeds, a node both reach and a node of the same distance, status and
\* level that one of them reaches
C25_Witness ==
  \E q \in Queries, depth \in Depths :
    LET out == RelatedOutcome(vault, q, depth)
    IN \E r, o \in out.results :
         /\ Cardinality(SeedsReaching(out.seeds, r.slug, depth, Loaded)) >= 2
         /\ Cardinality(SeedsReaching(out.seeds, o.slug, depth, Loaded)) = 1
         /\ o.min_distance = r.min_distance
         /\ o.status = r.status
         /\ o.level = r.level
         /\ r.score > o.score


\* the nodes that carry the query as a tag, and the nodes whose title holds it
Tagged(q, nodes) ==
  {n \in DOMAIN nodes :
     \E i \in 1..Len(nodes[n].tags) : <<Word(nodes[n].tags[i])>> = LowerText(q)}

Titled(q, nodes) ==
  {n \in DOMAIN nodes :
     \E i \in 1..Len(TitleOf(n)) :
        i + Len(q) - 1 <= Len(TitleOf(n))
        /\ \A j \in 1..Len(q) :
              q[j].stamp = 0 /\ Lower(TitleOf(n)[i + j - 1].word) = Lower(q[j].word)}

\* C26: the connectivity search takes its seeds from the first of three
\* methods that yields any: the one node slug resolution gives; else, only
\* when slug resolution gives no node, every node carrying the query as a
\* tag; else, only when no node carries it, every node whose title holds the
\* query; and when none yields a seed it fails as bad input with no results
C26_FirstMethodThatYieldsSeeds ==
  \A q \in Queries :
    \A out \in {RelatedOutcome(vault, q, MaxHops)} :
      \A resolved \in {ResolveNodeSlugText(q, Loaded)} :
        /\ resolved # 0 => out.result = "ok" /\ out.seeds = {resolved}
        /\ resolved = 0 /\ Tagged(q, Loaded) # {}
             => out.result = "ok" /\ out.seeds = Tagged(q, Loaded)
        /\ resolved = 0 /\ Tagged(q, Loaded) = {} /\ Titled(q, Loaded) # {}
             => out.result = "ok" /\ out.seeds = Titled(q, Loaded)
        /\ resolved = 0 /\ Tagged(q, Loaded) = {} /\ Titled(q, Loaded) = {}
             => out.result = "BadInput" /\ out.results = {}

\* one query resolves to a node while another node carries it as a tag, and
\* a second query resolves to no node and seeds the search from a tag or
\* from titles
C26_Witness ==
  /\ \E q \in Queries :
       /\ ResolveNodeSlugText(q, Loaded) # 0
       /\ Tagged(q, Loaded) # {}
       /\ ResolveNodeSlugText(q, Loaded) \notin Tagged(q, Loaded)
       /\ RelatedOutcome(vault, q, MaxHops).seeds = {ResolveNodeSlugText(q, Loaded)}
  /\ \E q \in Queries :
       /\ ResolveNodeSlugText(q, Loaded) = 0
       /\ Cardinality(RelatedOutcome(vault, q, MaxHops).seeds) >= 2


\* a file that is not a well-formed node file: no frontmatter, a level that
\* is none of the four, or below bedrock a status that is none of the two
BadFile(f) ==
  \/ f = NoFrontmatter
  \/ f.level \notin {"percept", "axiom", "principle", "application"}
  \/ /\ f.level \in {"principle", "application"}
     /\ f.status \notin {VALIDATED, TENTATIVE}

\* C27: a load is never ended by a bad file: every file that has no
\* frontmatter, an unrecognized level, or below bedrock an unrecognized
\* status is left out of the graph, and every other file is in the graph
\* under its slug with the level, links and tags it holds
C27_BadFilesSkippedOthersLoaded ==
  \A s \in DOMAIN vault :
    IF BadFile(vault[s]) THEN s \notin DOMAIN Loaded
    ELSE /\ s \in DOMAIN Loaded
         /\ Loaded[s].level = vault[s].level
         /\ Loaded[s].reduces_to = vault[s].reduces_to
         /\ Loaded[s].tags = vault[s].tags
         /\ Loaded[s].status \in STATUSES

\* a vault with a file without frontmatter, a file with a bad level or a bad
\* status, and a well-formed file, which is loaded
C27_Witness ==
  \E a, b, c \in DOMAIN vault :
    /\ vault[a] = NoFrontmatter
    /\ vault[b] # NoFrontmatter
    /\ BadFile(vault[b])
    /\ ~BadFile(vault[c])
    /\ DOMAIN Loaded = {c}


\* the add requests, and one with a status that is none of the two
AddRequestsAnyStatus ==
  AddRequests
  \cup {[level |-> "principle", status |-> "Draft", proposition |-> "p",
         reduces_to |-> <<1>>, tags |-> <<>>]}

\* one of the checks of add fails for the request
AddCheckFails(newSlug, req) ==
  \/ req.level \notin {"percept", "axiom", "principle", "application"}
  \/ req.status \notin {VALIDATED, TENTATIVE}
  \/ req.proposition = ""
  \/ \E i \in 1..Len(req.tags) : req.tags[i] \notin masterTags
  \/ req.level \in {"principle", "application"} /\ req.reduces_to = <<>>
  \/ req.level \in {"percept", "axiom"} /\ req.reduces_to # <<>>
  \/ \E i \in 1..Len(req.reduces_to) :
        \/ req.reduces_to[i] \notin DOMAIN Loaded
        \/ LEVEL_RANK(req.level) <= LEVEL_RANK(Loaded[req.reduces_to[i]].level)
        \/ Reaches(req.reduces_to[i], newSlug, Loaded)
  \/ newSlug \in DOMAIN vault

\* C28: an add for which a check fails (level, status, proposition, tags,
\* missing or forbidden reduces_to, target not found, level mismatch, cycle,
\* duplicate slug) fails and leaves every file as it was and creates none;
\* an add that succeeds leaves exactly one new file and every other file as
\* it was
C28_AddValidatesBeforeItPersists ==
  \A s \in NewSlugs, req \in AddRequestsAnyStatus :
    \A out \in {AddOutcome(vault, masterTags, s, req)} :
      /\ AddCheckFails(s, req) => out.result # "ok"
      /\ out.result # "ok" => out.files = vault
      /\ out.result = "ok" =>
           /\ s \notin DOMAIN vault
           /\ DOMAIN out.files = DOMAIN vault \cup {s}
           /\ \A x \in DOMAIN vault : out.files[x] = vault[x]

\* a vault with nodes in which one add fails on a duplicate slug, one fails
\* on a level mismatch, and one succeeds and leaves one more file
C28_Witness ==
  /\ vault # EmptyMap
  /\ \E s \in NewSlugs, req \in AddRequestsAnyStatus :
       AddOutcome(vault, masterTags, s, req).result = "DuplicateSlug"
  /\ \E s \in NewSlugs, req \in AddRequestsAnyStatus :
       AddOutcome(vault, masterTags, s, req).result = "LevelMismatch"
  /\ \E s \in NewSlugs, req \in AddRequestsAnyStatus :
       /\ AddOutcome(vault, masterTags, s, req).result = "ok"
       /\ Cardinality(DOMAIN AddOutcome(vault, masterTags, s, req).files)
            = Cardinality(DOMAIN vault) + 1


\* the path a call writes to or removes
PathOf(call) ==
  IF call.op = "add" THEN <<call.req.level, call.slug>>
  ELSE <<call.snapshot[call.slug].level, call.slug>>

\* the request of a call passes every check against the files it loaded
PassesOnSnapshot(call) ==
  IF call.op = "add"
  THEN AddOutcome(call.snapshot, masterTags, call.slug, call.req).result = "ok"
  ELSE DeleteOutcome(call.snapshot, call.slug).result = "ok"

\* C29: concurrent invocations are not isolated.  Each is decided by the
\* files it loaded, whatever was written since: a delete whose node had no
\* dependents when it loaded removes the file, and an add whose targets were
\* there when it loaded creates its file, both reporting success, so that a
\* delete of X interleaved with an add of C with reduces_to [X] leaves C
\* with an edge to a node that is gone
C29_DecidedByTheSnapshot ==
  [][\A p \in Procs :
       (/\ calls[p].pc = "loaded"
        /\ calls'[p].pc = "idle"
        /\ PassesOnSnapshot(calls[p]))
       => IF calls[p].op = "add"
          THEN PathOf(calls[p]) \notin DOMAIN disk
                 => /\ calls'[p].result = "ok"
                    /\ PathOf(calls[p]) \in DOMAIN disk'
          ELSE PathOf(calls[p]) \in DOMAIN disk
                 => /\ calls'[p].result = "ok"
                    /\ PathOf(calls[p]) \notin DOMAIN disk']_vars

\* a delete of X and an add of C with reduces_to [X] overlapped, both ended
\* with success, and the folders hold C but not X
C29_Witness ==
  \E p, q \in Procs :
    /\ calls[p].op = "delete" /\ calls[p].pc = "idle" /\ calls[p].result = "ok"
    /\ calls[q].op = "add" /\ calls[q].pc = "idle" /\ calls[q].result = "ok"
    /\ calls[p].overlapped /\ calls[q].overlapped
    /\ calls[q].req.reduces_to = <<calls[p].slug>>
    /\ <<calls[q].req.level, calls[q].slug>> \in DOMAIN disk
    /\ disk[<<calls[q].req.level, calls[q].slug>>].reduces_to = <<calls[p].slug>>
    /\ calls[p].slug \notin DOMAIN ReadFolders(disk)


\* C30: when two concurrent adds generate the same slug, free when both
\* loaded, and one has succeeded, the other, if no other check rejects it,
\* fails with DuplicateSlug; and no step leaves the folders with two node
\* files of the same slug
C30_OneAddWinsOneFilePerSlug ==
  [][/\ \A s \in Slugs : Cardinality({l \in LEVELS : <<l, s>> \in DOMAIN disk'}) <= 1
     /\ \A p, q \in Procs :
          (/\ p # q
           /\ calls[p].op = "add" /\ calls[p].pc = "idle" /\ calls[p].overlapped
           /\ calls[p].result = "ok"
           /\ calls[q].op = "add" /\ calls[q].pc = "loaded" /\ calls[q].overlapped
           /\ calls'[q].pc = "idle"
           /\ calls[q].slug = calls[p].slug
           /\ calls[q].slug \notin DOMAIN calls[q].snapshot
           /\ PassesOnSnapshot(calls[q]))
          => calls'[q].result = "DuplicateSlug"]_vars


\* C33: every node the scan reports with a cycle issue lies on a directed
\* reduces_to cycle; a node that is only reached from a cycle is not reported
C33_CycleIssuesOnlyOnCycles ==
  \A i \in ValidateGraph(Loaded, masterTags, {}) :
     i.type = "cycle" => i.slug \in OnCycle(Loaded)


\* the broken_link issues a scan of the files reports for node n about
\* entries that name slug q
BrokenLinksTo(files, n, q) ==
  {i \in ValidateGraph(LoadAllNodes(files), masterTags, {}) :
     /\ i.slug = n
     /\ i.type = "broken_link"
     /\ files[n].reduces_to[i.at] = q}

\* C39: a successful delete removes the file of its target and leaves every
\* other file as it was; each node that listed the target still lists it, and
\* the next scan reports one broken_link for each such entry
C39_DeleteRemovesOneFileOnly ==
  \A q \in DOMAIN Loaded :
    \A out \in {DeleteOutcome(vault, q)} :
      out.result = "ok" =>
        /\ DOMAIN out.files = DOMAIN vault \ {q}
        /\ \A n \in DOMAIN out.files :
             /\ out.files[n] = vault[n]
             /\ Cardinality(BrokenLinksTo(out.files, n, q))
                  = CountIn(vault[n].reduces_to, q)

\* a Tentative node that another node lists is deleted, and the scan of what
\* is left reports the broken link of the node that lists it
C39_Witness ==
  \E q, n \in DOMAIN Loaded :
    /\ n # q
    /\ Loaded[q].status = TENTATIVE
    /\ ~IsBedrock(Loaded[q].level)
    /\ Includes(Loaded[n].reduces_to, q)
    /\ DeleteOutcome(vault, q).result = "ok"
    /\ BrokenLinksTo(DeleteOutcome(vault, q).files, n, q) # {}


\* every reduces_to entry of every loaded node names a loaded node of a
\* strictly lower rank
RankValid(nodes) ==
  \A n \in DOMAIN nodes : \A i \in 1..Len(nodes[n].reduces_to) :
     /\ nodes[n].reduces_to[i] \in DOMAIN nodes
     /\ LEVEL_RANK(nodes[n].level) > LEVEL_RANK(nodes[nodes[n].reduces_to[i]].level)

\* C37 as stated: in a vault in which every existing edge satisfies the
\* strict rank ordering, no add and no update is rejected with CycleDetected
C37_NeverCycleDetected ==
  RankValid(Loaded) =>
    /\ \A s \in NewSlugs, req \in AddRequests :
         AddOutcome(vault, masterTags, s, req).result # "CycleDetected"
    /\ \A q \in DOMAIN Loaded, req \in UpdateRequests :
         UpdateOutcome(vault, masterTags, q, req).result # "CycleDetected"


\* C37: in a vault in which every existing edge satisfies the strict rank
\* ordering, no update, and no add whose slug is not the slug of an existing
\* node, is rejected with CycleDetected: a target from which the source is
\* reached, the source itself included, fails the level check first
C37_CycleDetectedOnlyOnSlugCollision ==
  RankValid(Loaded) =>
    /\ \A s \in NewSlugs \ DOMAIN Loaded, req \in AddRequests :
         AddOutcome(vault, masterTags, s, req).result # "CycleDetected"
    /\ \A q \in DOMAIN Loaded, req \in UpdateRequests :
         UpdateOutcome(vault, masterTags, q, req).result # "CycleDetected"

\* a rank-ordered vault in which a node is proposed an edge to itself and an
\* edge to a node that reaches it, both rejected with LevelMismatch, and in
\* which an add under the slug of an existing node is rejected with
\* CycleDetected
C37_Witness ==
  /\ RankValid(Loaded)
  /\ \E q, t \in DOMAIN Loaded :
       /\ t # q
       /\ Reaches(t, q, Loaded)
       /\ UpdateOutcome(vault, masterTags, q, LinkOnly(t)).result = "LevelMismatch"
       /\ UpdateOutcome(vault, masterTags, q, LinkOnly(q)).result = "LevelMismatch"
  /\ \E s \in NewSlugs \cap DOMAIN Loaded, req \in AddRequests :
       AddOutcome(vault, masterTags, s, req).result = "CycleDetected"


\* C35: no node's reduces_to lists the same parent slug more than once
C35_ReducesToIsASet ==
  \A n \in DOMAIN Loaded : \A i, k \in 1..Len(Loaded[n].reduces_to) :
     Loaded[n].reduces_to[i] = Loaded[n].reduces_to[k] => i = k


\* C34: for every group id and explicit list of old nodes, the list of old
\* nodes that merge processes is the union of the group's members and the
\* named nodes, each node occurring exactly once
C34_OldNodesAreAUnionWithoutRepeats ==
  \A req \in MergeRequests :
    \A found \in {OldNodes(req, Loaded)} :
      found.result = "ok" =>
        /\ Range(found.old)
             = Range(req.oldNodeSlugs)
               \cup {n \in DOMAIN Loaded : /\ req.groupId # 0
                                           /\ Loaded[n].deduplication_group = req.groupId}
        /\ \A i, k \in 1..Len(found.old) : found.old[i] = found.old[k] => i = k


\* C32: group create attaches a group id only when at least two nodes are
\* named, every named node exists, all are at one level and none carries a
\* group id; in every other case it changes no node, and a group create that
\* succeeds changes no node's reduces_to, status or level
C32_GroupCreateNeedsTwoFreshPeers ==
  \A nodeSlugs \in SeqsUpTo(Slugs, MaxLinks), groupId \in GroupIds :
    \A out \in {GroupCreateOutcome(vault, nodeSlugs, groupId, FALSE)} :
      IF /\ Len(nodeSlugs) >= 2
         /\ \A i \in 1..Len(nodeSlugs) :
              /\ nodeSlugs[i] \in DOMAIN Loaded
              /\ Loaded[nodeSlugs[i]].level = Loaded[nodeSlugs[1]].level
              /\ Loaded[nodeSlugs[i]].deduplication_group = 0
      THEN /\ out.result = "ok"
           /\ DOMAIN out.files = DOMAIN vault
           /\ \A s \in DOMAIN vault :
                /\ out.files[s].reduces_to = vault[s].reduces_to
                /\ out.files[s].status = vault[s].status
                /\ out.files[s].level = vault[s].level
      ELSE /\ out.result # "ok"
           /\ out.files = vault


\* the texts a node is looked up by
LookupTexts ==
  {<<Word("Health")>>, <<Word("risk")>>, <<Word("wealth")>>, <<Word("vibes")>>,
   <<Word("and"), Word("health")>>, <<Stamp(3)>>, <<Stamp(2), Word("risk")>>}

\* the nodes a text matches: by slug prefix, slug substring or title substring
MatchesOf(query, nodes) ==
  {s \in DOMAIN nodes :
     \/ IncludesText(SlugText(s), LowerText(query))
     \/ IncludesText(LowerText(TitleOf(s)), LowerText(query))}

\* C36 as stated: whenever no node has the text as its exact slug and two or
\* more nodes match it, the lookup fails with AmbiguousMatch and delete
\* changes nothing
C36_NeverSelectsAmongSeveral ==
  \A q \in LookupTexts :
    (/\ \A s \in DOMAIN Loaded : SlugText(s) # LowerText(q)
     /\ Cardinality(MatchesOf(q, Loaded)) >= 2)
    => /\ FindNodeBySlug(q, Loaded).ambiguous
       /\ DeleteByText(vault, q).result = "AmbiguousMatch"
       /\ DeleteByText(vault, q).files = vault


\* C36: when no node has the text as its exact slug, the first of the tiers
\* slug prefix, slug substring, title substring that holds exactly one node
\* decides the lookup, whatever the later tiers match; when no tier holds
\* exactly one node and some node matches, the lookup fails with
\* AmbiguousMatch, and delete and update change nothing
C36_FirstTierWithOneMatchDecides ==
  \A nodes \in {Loaded} :
    \A q \in {LowerText(x) : x \in LookupTexts} :
      (\A s \in DOMAIN nodes : SlugText(s) # q) =>
        \A found \in {FindNodeBySlug(q, nodes)} :
          \A P \in {{s \in DOMAIN nodes : StartsWith(SlugText(s), q)}} :
            \A S \in {{s \in DOMAIN nodes : IncludesText(SlugText(s), q)}} :
              \A T \in {{s \in DOMAIN nodes : IncludesText(LowerText(TitleOf(s)), q)}} :
                IF Cardinality(P) = 1 THEN found.slug \in P /\ ~found.ambiguous
                ELSE IF Cardinality(S) = 1 THEN found.slug \in S /\ ~found.ambiguous
                ELSE IF Cardinality(T) = 1 THEN found.slug \in T /\ ~found.ambiguous
                ELSE /\ found.slug = 0
                     /\ found.ambiguous <=> (P \cup S \cup T # {})
                     /\ found.ambiguous =>
                          /\ DeleteByText(vault, q) = Fail("AmbiguousMatch", vault)
                          /\ UpdateByText(vault, masterTags, q, StatusOnly(TENTATIVE))
                               = Fail("AmbiguousMatch", vault)

\* a text that is no node's slug and that two live nodes match in every tier
\* it matches at all: the lookup is ambiguous and delete leaves the vault as
\* it is
C36_Witness ==
  \E q \in LookupTexts :
    /\ \A s \in DOMAIN Loaded : SlugText(s) # LowerText(q)
    /\ Cardinality(MatchesOf(q, Loaded)) >= 2
    /\ FindNodeBySlug(q, Loaded).ambiguous
    /\ DeleteByText(vault, q) = Fail("AmbiguousMatch", vault)
    /\ \E s \in MatchesOf(q, Loaded) : DeleteOutcome(vault, s).result = "ok"


\* the live nodes that are Validated and list a member of the merge
ValidatedDependents(run) ==
  {x \in DOMAIN Loaded \ Range(run[2].oldNodeSlugs) :
     /\ Loaded[x].status = VALIDATED
     /\ Range(Loaded[x].reduces_to) \cap Range(run[2].oldNodeSlugs) # {}}

\* C38: after a successful merge of principle or application members, every
\* live Validated node that reduced to a member is returned by
\* findHollowChains with the canonical node among its weak links, and the scan
\* the merge ends with reports no issue
C38_DependentsHollowAfterMerge ==
  \A run \in MergeRuns :
    run[2].level \in {"principle", "application"} =>
      \A out \in {MergeOf(run)} :
        out.result = "ok" =>
          \A after \in {LoadAllNodes(out.files)} :
            /\ \A x \in ValidatedDependents(run) :
                 /\ x \in DOMAIN FindHollowChains(after)
                 /\ run[1] \in Range(FindHollowChains(after)[x])
            /\ after[run[1]].status = TENTATIVE
            /\ ValidateGraph(after, masterTags, run[3] \ {run[1]}) = {}

\* a successful merge of a principle that a Validated application lists, the
\* application hollow afterwards through the canonical node and not before
C38_Witness ==
  \E run \in MergeRuns :
    /\ run[2].level = "principle"
    /\ MergeOf(run).result = "ok"
    /\ \E x \in ValidatedDependents(run) :
         /\ x \notin DOMAIN FindHollowChains(Loaded)
         /\ x \in DOMAIN FindHollowChains(LoadAllNodes(MergeOf(run).files))
         /\ run[1] \in Range(FindHollowChains(LoadAllNodes(MergeOf(run).files))[x])


\* the step is a merge stopped after it moved a member
KilledStep == last'.result = "killed" /\ DOMAIN trash' # DOMAIN trash

\* the step is an add or a delete that changed a file
OrdinaryStep == vault' # vault /\ last'.op \in {"add", "delete"}

\* the members the step moved, and the canonical node it wrote
MovedNow == DOMAIN trash' \ DOMAIN trash
WrittenNow == CHOOSE c \in DOMAIN vault' \ DOMAIN vault : TRUE

\* after the step, a live node lists a member that the step moved
DanglingAfter ==
  \E x \in DOMAIN vault' : Range(vault'[x].reduces_to) \cap MovedNow # {}

\* after the step, the record of the canonical node lacks a holding-area path
RecordLacksAfter ==
  \E i \in 1..Len(vault'[WrittenNow].merged_from) :
     ~vault'[WrittenNow].merged_from[i].trashed

\* no file leaves the holding area and no moved member is live again
NothingRolledBack ==
  /\ trash' = trash
  /\ DOMAIN trash \cap DOMAIN vault' = DOMAIN trash \cap DOMAIN vault

\* C31 as stated: a merge stopped after a member was moved and before the
\* reference loop ended leaves a live node that names a slug absent from the
\* live graph, or a canonical record without the holding-area paths, or both;
\* and no later add or delete takes a file back out of the holding area
C31_InterruptedMergeLeavesDamage ==
  [][/\ KilledStep => DanglingAfter \/ RecordLacksAfter
     /\ OrdinaryStep => NothingRolledBack]_vars

\* C31: a merge stopped after a member was moved and before the reference
\* loop ended leaves the canonical node written and the moved members in the
\* holding area and out of the live graph.  The record of the canonical node
\* lacks the holding-area paths exactly when the merge was stopped before it
\* rewrote the record, and then no reference has been rewritten; a live node
\* names a moved member exactly when it listed the member and the loop had not
\* come to it, every other node lists the canonical node in the member's
\* place.  No later add or delete takes a file back out of the holding area
C31_InterruptedMergeStaysAsStopped ==
  [][/\ KilledStep =>
          /\ MovedNow \cap DOMAIN vault' = {}
          /\ MovedNow \subseteq DOMAIN vault
          /\ WrittenNow \notin DOMAIN vault
          /\ vault'[WrittenNow].status = TENTATIVE
          /\ \A x \in DOMAIN vault \ MovedNow :
               /\ x \in DOMAIN vault'
               /\ vault'[x].reduces_to
                    \in {vault[x].reduces_to,
                         MapRefs(vault[x].reduces_to, MovedNow, WrittenNow)}
          /\ RecordLacksAfter =>
               \A x \in DOMAIN vault \ MovedNow :
                  vault'[x].reduces_to = vault[x].reduces_to
          /\ ~RecordLacksAfter =>
               {vault'[WrittenNow].merged_from[i].id :
                  i \in 1..Len(vault'[WrittenNow].merged_from)} = MovedNow
          /\ DanglingAfter <=>
               \E x \in DOMAIN vault \ MovedNow :
                  /\ Range(vault[x].reduces_to) \cap MovedNow # {}
                  /\ vault'[x].reduces_to = vault[x].reduces_to
     /\ OrdinaryStep => NothingRolledBack]_vars

\* a merge was stopped after its member was moved, a delete has run since, and
\* a live node still names the member that lies in the holding area, under a
\* canonical node whose record has the holding-area paths
C31_Witness ==
  /\ last.op \in {"add", "delete"}
  /\ \E x, c \in DOMAIN vault, m \in DOMAIN trash :
       /\ m \notin DOMAIN vault
       /\ m \in Range(vault[x].reduces_to)
       /\ trash[m].merged_into = c
       /\ vault[c].merged_from # <<>>
       /\ \A i \in 1..Len(vault[c].merged_from) : vault[c].merged_from[i].trashed


\* C40: every tag carried by every live node is in the master tag list, so
\* the scan reports no rogue_tag
C40_LiveTagsAreListed ==
  /\ \A n \in DOMAIN Loaded : Range(Loaded[n].tags) \subseteq masterTags
  /\ \A i \in ValidateGraph(Loaded, masterTags, {}) : i.type # "rogue_tag"

====
